---- MODULE Spec2Model ----
(***************************************************************************)
(* A model of the expression-evaluation core of ETL:                       *)
(*   - the GEMM/GEMV/GEVM implementation selectors (impl/gemm.hpp and the  *)
(*     older impl/mmul.hpp),                                               *)
(*   - the two-phase temporary expressions and their visitors              *)
(*     (expr/temporary_expr.hpp, expr/binary_expr.hpp),                    *)
(*   - the parallel dispatch functions (parallel_support.hpp).             *)
(***************************************************************************)
EXTENDS Integers, Sequences, FiniteSets, TLC

VARIABLES
    selIn,      \* selectors: template arguments, build flags, local context, sizes
    selOut,     \* selectors: the last selector call and what it returned
    obj,        \* expressions: kind, operands, allocated, evaluated, _c of each object
    cont,       \* expressions: cont[c] = how many times apply has filled container c
    hist,       \* expressions: per object, the calls of allocate() and apply() so far
    trace,      \* expressions: the allocate/apply/sync/read calls of the last operation
    lastOp,     \* expressions: the last operation and the object it was called on
    is_gpu,     \* expressions: decay_traits<D>::is_gpu of the temporary nodes
    status,     \* expressions: "ok", or how the program stopped
    nops,       \* expressions: operations performed so far
    ctx,        \* dispatch: etl::threads, etl::is_parallel and the local context
    call,       \* dispatch: the dispatch call of the main thread and its position
    tasks,      \* dispatch: the tasks scheduled on the thread pool and their state
    direct,     \* dispatch: the blocks the main thread called the functor on itself
    futures,    \* dispatch: the vector of partial results of engine_dispatch_1d_acc
    accs,       \* dispatch: the values passed to the accumulator functor, in order
    thr,        \* threads: the local context and the last selector result of each
    arg,        \* calls: the operation called last and its operands
    res         \* calls: what that operation did and returned

selVars == <<selIn, selOut>>
tmpVars == <<obj, cont, hist, trace, lastOp, is_gpu, status, nops>>
parVars == <<ctx, call, tasks, direct, futures, accs>>
extVars == <<thr, arg, res>>
vars == <<selIn, selOut, obj, cont, hist, trace, lastOp, is_gpu, status, nops,
          ctx, call, tasks, direct, futures, accs, thr, arg, res>>

\* No thread has started and no operation has been called.
ExtIdle == thr = << >> /\ arg = [op |-> "none"] /\ res = [op |-> "none"]

(***************************************************************************)
(* Implementation selectors                                                *)
(***************************************************************************)

\* The tags of gemm_impl that impl/gemm.hpp names, and the one more that
\* impl/mmul.hpp names.
GemmTags == {"STD", "VEC", "BLAS", "CUBLAS"}
MmulTags == GemmTags \cup {"FAST"}

ElemTypes == {"float", "cfloat", "cdouble"}

is_complex_t(T) == T \in {"cfloat", "cdouble"}
is_complex_single_t(T) == T = "cfloat"

\* Thresholds of etl/threshold.hpp.
gemm_std_max == 5625
gemm_cublas_min == 32400
gemv_cublas_min == 1000000

\* Extents the sizes are drawn from: their products fall below, on and above
\* each threshold.
Dims == {1, 75, 180, 1001}

\* One selector input: the build (blas, cublas, vec), the operand traits
\* (dma, vectorizable, T), the local context (forced, impl) and the sizes.
SelInputs ==
    { [blas |-> bl, cublas |-> cu, vec |-> ve, dma |-> dm, vectorizable |-> vz, T |-> t,
       forced |-> f[1], impl |-> f[2], n1 |-> a, n2 |-> b, n3 |-> c] :
        bl \in BOOLEAN, cu \in BOOLEAN, ve \in BOOLEAN, dm \in BOOLEAN, vz \in BOOLEAN,
        t \in ElemTypes,
        f \in ({<<FALSE, "STD">>} \cup {<<TRUE, g>> : g \in MmulTags}),
        a \in Dims, b \in Dims, c \in Dims }

Ret(tag, d) == [impl |-> tag, diag |-> d]

\* ---- impl/gemm.hpp (operands are all direct-memory: static_assert) ----

select_default_gemm_impl(x) ==
    IF x.cublas
    THEN IF x.n1 * x.n3 < gemm_cublas_min /\ x.blas THEN "BLAS"
         ELSE IF x.n1 * x.n3 < gemm_cublas_min /\ x.n1 * x.n3 < gemm_std_max THEN "STD"
         ELSE "CUBLAS"
    ELSE IF x.blas THEN "BLAS"
    ELSE IF x.vec /\ x.vectorizable THEN "VEC"
    ELSE "STD"

select_default_gemv_impl(x) ==
    IF x.blas THEN "BLAS"
    ELSE IF x.vectorizable /\ x.vec THEN "VEC"
    ELSE IF x.cublas /\ is_complex_single_t(x.T) /\ x.n1 * x.n2 > gemv_cublas_min THEN "CUBLAS"
    ELSE "STD"

select_default_gevm_impl(x) ==
    IF x.blas THEN "BLAS"
    ELSE IF x.vectorizable /\ x.vec THEN "VEC"
    ELSE IF x.cublas /\ is_complex_single_t(x.T) /\ x.n1 * x.n2 > gemv_cublas_min THEN "CUBLAS"
    ELSE "STD"

select_gemm_impl(x) ==
    LET def == select_default_gemm_impl(x) IN
    IF x.forced
    THEN CASE x.impl = "CUBLAS" -> IF ~x.cublas THEN Ret(def, TRUE) ELSE Ret(x.impl, FALSE)
           [] x.impl = "BLAS"   -> IF ~x.blas THEN Ret(def, TRUE) ELSE Ret(x.impl, FALSE)
           [] x.impl = "VEC"    -> IF ~x.vec \/ ~x.vectorizable THEN Ret(def, TRUE)
                                   ELSE Ret(x.impl, FALSE)
           [] OTHER             -> Ret(x.impl, FALSE)
    ELSE Ret(def, FALSE)

select_gemv_impl(x) ==
    IF x.forced
    THEN CASE x.impl = "CUBLAS" -> IF ~x.cublas THEN Ret(select_default_gemv_impl(x), TRUE)
                                   ELSE Ret(x.impl, FALSE)
           [] x.impl = "BLAS"   -> IF ~x.blas THEN Ret(select_default_gemv_impl(x), TRUE)
                                   ELSE Ret(x.impl, FALSE)
           [] x.impl = "VEC"    -> IF ~x.vec \/ ~x.vectorizable
                                   THEN Ret(select_default_gemv_impl(x), TRUE)
                                   ELSE Ret(x.impl, FALSE)
           [] OTHER             -> Ret(x.impl, FALSE)
    ELSE Ret(select_default_gemv_impl(x), FALSE)

\* The VEC fallback of select_gevm_impl calls select_default_gemv_impl (line 251).
select_gevm_impl(x) ==
    IF x.forced
    THEN CASE x.impl = "CUBLAS" -> IF ~x.cublas THEN Ret(select_default_gevm_impl(x), TRUE)
                                   ELSE Ret(x.impl, FALSE)
           [] x.impl = "BLAS"   -> IF ~x.blas THEN Ret(select_default_gevm_impl(x), TRUE)
                                   ELSE Ret(x.impl, FALSE)
           [] x.impl = "VEC"    -> IF ~x.vec \/ ~x.vectorizable
                                   THEN Ret(select_default_gemv_impl(x), TRUE)
                                   ELSE Ret(x.impl, FALSE)
           [] OTHER             -> Ret(x.impl, FALSE)
    ELSE Ret(select_default_gevm_impl(x), FALSE)

\* ---- impl/mmul.hpp (template <bool DMA, typename T>) ----

mmul_select_default_gemm_impl(x) ==
    IF ~x.dma THEN "STD"
    ELSE IF x.cublas
    THEN IF x.n1 * x.n3 < gemm_cublas_min /\ x.blas THEN "BLAS"
         ELSE IF x.n1 * x.n3 < gemm_cublas_min /\ x.n1 * x.n3 < gemm_std_max THEN "STD"
         ELSE "CUBLAS"
    ELSE IF x.blas THEN "BLAS"
    ELSE IF x.n1 * x.n3 < gemm_std_max \/ is_complex_t(x.T) THEN "STD"
    ELSE "FAST"

mmul_select_default_gemv_impl(x) ==
    IF ~x.dma THEN "STD"
    ELSE IF x.blas THEN "BLAS"
    ELSE IF x.cublas /\ is_complex_single_t(x.T) /\ x.n1 * x.n2 > gemv_cublas_min THEN "CUBLAS"
    ELSE "STD"

mmul_select_default_gevm_impl(x) ==
    IF ~x.dma THEN "STD"
    ELSE IF x.blas THEN "BLAS"
    ELSE IF x.cublas /\ is_complex_single_t(x.T) /\ x.n1 * x.n2 > gemv_cublas_min THEN "CUBLAS"
    ELSE "STD"

mmul_select_gemm_impl(x) ==
    IF x.forced
    THEN CASE x.impl = "CUBLAS" -> IF ~x.cublas \/ ~x.dma
                                   THEN Ret(mmul_select_default_gemm_impl(x), TRUE)
                                   ELSE Ret(x.impl, FALSE)
           [] x.impl = "BLAS"   -> IF ~x.blas \/ ~x.dma
                                   THEN Ret(mmul_select_default_gemm_impl(x), TRUE)
                                   ELSE Ret(x.impl, FALSE)
           [] x.impl = "FAST"   -> IF ~x.dma \/ is_complex_t(x.T)
                                   THEN Ret(mmul_select_default_gemm_impl(x), TRUE)
                                   ELSE Ret(x.impl, FALSE)
           [] OTHER             -> Ret(x.impl, FALSE)
    ELSE Ret(mmul_select_default_gemm_impl(x), FALSE)

mmul_select_gemv_impl(x) ==
    IF x.forced
    THEN CASE x.impl = "CUBLAS" -> IF ~x.cublas \/ ~x.dma
                                   THEN Ret(mmul_select_default_gemv_impl(x), TRUE)
                                   ELSE Ret(x.impl, FALSE)
           [] x.impl = "BLAS"   -> IF ~x.blas \/ ~x.dma
                                   THEN Ret(mmul_select_default_gemv_impl(x), TRUE)
                                   ELSE Ret(x.impl, FALSE)
           [] x.impl = "FAST"   -> Ret(mmul_select_default_gemv_impl(x), TRUE)
           [] OTHER             -> Ret(x.impl, FALSE)
    ELSE Ret(mmul_select_default_gemv_impl(x), FALSE)

mmul_select_gevm_impl(x) ==
    IF x.forced
    THEN CASE x.impl = "CUBLAS" -> IF ~x.cublas \/ ~x.dma
                                   THEN Ret(mmul_select_default_gevm_impl(x), TRUE)
                                   ELSE Ret(x.impl, FALSE)
           [] x.impl = "BLAS"   -> IF ~x.blas \/ ~x.dma
                                   THEN Ret(mmul_select_default_gevm_impl(x), TRUE)
                                   ELSE Ret(x.impl, FALSE)
           [] x.impl = "FAST"   -> Ret(mmul_select_default_gevm_impl(x), TRUE)
           [] OTHER             -> Ret(x.impl, FALSE)
    ELSE Ret(mmul_select_default_gevm_impl(x), FALSE)

\* ---- the callers: one selector call on the current input ----

NoCall == [file |-> "none", family |-> "none", impl |-> "none", diag |-> FALSE]

Called(file, family, r) ==
    [file |-> file, family |-> family, impl |-> r.impl, diag |-> r.diag]

\* impl/gemm.hpp compiles only with direct-memory operands and knows four tags.
GemmHppInput == selIn.dma /\ selIn.impl \in GemmTags

mm_mul_impl ==
    /\ selOut = NoCall /\ GemmHppInput
    /\ selOut' = Called("gemm.hpp", "gemm", select_gemm_impl(selIn))
    /\ UNCHANGED <<selIn, tmpVars, parVars, extVars>>

mv_mul_impl ==
    /\ selOut = NoCall /\ GemmHppInput
    /\ selOut' = Called("gemm.hpp", "gemv", select_gemv_impl(selIn))
    /\ UNCHANGED <<selIn, tmpVars, parVars, extVars>>

vm_mul_impl ==
    /\ selOut = NoCall /\ GemmHppInput
    /\ selOut' = Called("gemm.hpp", "gevm", select_gevm_impl(selIn))
    /\ UNCHANGED <<selIn, tmpVars, parVars, extVars>>

mmul_mm_mul_impl ==
    /\ selOut = NoCall
    /\ selOut' = Called("mmul.hpp", "gemm", mmul_select_gemm_impl(selIn))
    /\ UNCHANGED <<selIn, tmpVars, parVars, extVars>>

mmul_mv_mul_impl ==
    /\ selOut = NoCall
    /\ selOut' = Called("mmul.hpp", "gemv", mmul_select_gemv_impl(selIn))
    /\ UNCHANGED <<selIn, tmpVars, parVars, extVars>>

mmul_vm_mul_impl ==
    /\ selOut = NoCall
    /\ selOut' = Called("mmul.hpp", "gevm", mmul_select_gevm_impl(selIn))
    /\ UNCHANGED <<selIn, tmpVars, parVars, extVars>>

(***************************************************************************)
(* Parallel dispatch                                                       *)
(***************************************************************************)

\* The largest etl::threads, the largest index of a 1D range, the largest
\* extent of a 2D range.
MaxThreads == 3
MaxIndex == 4
MaxDim == 3

Thresholds == {1, MaxIndex}

\* The largest size of a sliced expression.
MaxSize == 6

\* default_intrinsic_traits<TT>::size: elements per vector, a power of two.
IntrinsicSizes == {1, 2}

\* etl::threads, etl::is_parallel, local_context().serial and .parallel.
Contexts == [threads : 1..MaxThreads, is_parallel : BOOLEAN,
             serial : BOOLEAN, parallel : BOOLEAN]

Min(a, b) == IF a <= b THEN a ELSE b
Max(a, b) == IF a >= b THEN a ELSE b

\* engine_select_parallel without the test of the serial scope.
engine_select_parallel_ignores_serial(n, threshold) ==
    ctx.threads > 1 /\ (ctx.parallel \/ (ctx.is_parallel /\ n >= threshold))

\* engine_select_parallel(size_t n, size_t threshold)
engine_select_parallel(n, threshold) ==
    ctx.threads > 1 /\ ~ctx.serial
        /\ (ctx.parallel \/ (ctx.is_parallel /\ n >= threshold))

\* engine_select_parallel(bool select)
engine_select_parallel_select(select) ==
    ctx.threads > 1 /\ ~ctx.serial /\ (ctx.parallel \/ select)

\* The arguments of one functor call: [first, last) for a 1D functor, and
\* [first, last) x [first2, last2) for a 2D functor.
Blk2(a, b, c, d) == [first |-> a, last |-> b, first2 |-> c, last2 |-> d]
Blk(a, b) == Blk2(a, b, 0, 1)

\* The indices a block holds.
Indices(b) == (b.first .. (b.last - 1)) \X (b.first2 .. (b.last2 - 1))

\* A 1D partition whose last block stops at the last whole batch.
blocks_1d_whole_batches(first, last) ==
    LET n     == last - first
        T     == Min(n, ctx.threads)
        batch == n \div T
    IN  [t \in 1..T |-> Blk(first + (t - 1) * batch, first + t * batch)]

\* The blocks engine_dispatch_1d and engine_dispatch_1d_acc schedule, in
\* order: T - 1 blocks of batch indices, then the block that ends at last.
blocks_1d(first, last) ==
    LET n     == last - first
        T     == Min(n, ctx.threads)
        batch == n \div T
    IN  [t \in 1..T |-> IF t < T
                        THEN Blk(first + (t - 1) * batch, first + t * batch)
                        ELSE Blk(first + (T - 1) * batch, last)]

\* size_t(round(std::sqrt(double(num) / double(den)))): the integer nearest
\* to the square root, halves rounded up.
round_sqrt(num, den) ==
    CHOOSE r \in 0..(num + 1) :
        /\ 4 * num < (2 * r + 1) * (2 * r + 1) * den
        /\ r > 0 => (2 * r - 1) * (2 * r - 1) * den <= 4 * num

\* The while loop of thread_blocks: the first m from m0 on that divides threads.
RECURSIVE next_divisor(_)
next_divisor(m) ==
    IF m * (ctx.threads \div m) = ctx.threads THEN m ELSE next_divisor(m + 1)

\* thread_blocks(M, N)
thread_blocks(M, N) ==
    IF M >= N
    THEN LET m == next_divisor(Min(ctx.threads, Max(1, round_sqrt(ctx.threads * M, N))))
         IN  <<m, ctx.threads \div m>>
    ELSE LET n == next_divisor(Min(ctx.threads, Max(1, round_sqrt(ctx.threads * N, M))))
         IN  <<ctx.threads \div n, n>>

\* The two nested loops of engine_dispatch_2d without the tests of row and of
\* column against the end of the range.
blocks_2d_no_skip(last1, last2) ==
    LET block   == thread_blocks(last1, last2)
        block_1 == last1 \div block[1] + (IF last1 % block[1] > 0 THEN 1 ELSE 0)
        block_2 == last2 \div block[2] + (IF last2 % block[2] > 0 THEN 1 ELSE 0)
    IN  [k \in 1..(block[1] * block[2]) |->
            LET row    == block_1 * ((k - 1) \div block[2])
                column == block_2 * ((k - 1) % block[2])
            IN  Blk2(row, row + Min(block_1, last1 - row),
                     column, column + Min(block_2, last2 - column))]

\* The blocks engine_dispatch_2d schedules, in order: the two nested loops,
\* the rows and columns that start past the end skipped.
blocks_2d(last1, last2) ==
    LET block   == thread_blocks(last1, last2)
        block_1 == last1 \div block[1] + (IF last1 % block[1] > 0 THEN 1 ELSE 0)
        block_2 == last2 \div block[2] + (IF last2 % block[2] > 0 THEN 1 ELSE 0)
        grid    == [k \in 1..(block[1] * block[2]) |->
                      LET row    == block_1 * ((k - 1) \div block[2])
                          column == block_2 * ((k - 1) % block[2])
                      IN  Blk2(row, row + Min(block_1, last1 - row),
                               column, column + Min(block_2, last2 - column))]
    IN  SelectSeq(grid, LAMBDA b : b.first < last1 /\ b.first2 < last2)

\* The functor of the accumulating dispatch: the number of indices it is given.
functor(b) == Cardinality(Indices(b))

\* The main thread, outside of any dispatch call.
NoFrame == [fn |-> "none", pc |-> "idle", range |-> Blk(0, 0), todo |-> << >>]

\* The frame of a dispatch call over range: pc is where the main thread is,
\* todo the blocks it has still to schedule.
Frame(fn, pc, range, todo) == [fn |-> fn, pc |-> pc, range |-> range, todo |-> todo]

\* A dispatch function that returns after its last schedule call.
after_schedule_returns(todo) == IF todo = << >> THEN "returned" ELSE "schedule"

\* Where the main thread goes after a thread_engine::schedule call: to the
\* next one, and after the last one to thread_engine::wait().
after_schedule(todo) == IF todo = << >> THEN "wait" ELSE "schedule"

\* engine_dispatch_1d(functor, first, last, size_t threshold), up to its
\* first schedule call or its return.
engine_dispatch_1d(first, last, threshold) ==
    /\ call.pc = "idle"
    /\ first <= last
    /\ LET n == last - first IN
       IF n # 0
       THEN IF engine_select_parallel(n, threshold)
            THEN /\ call' = Frame("1d", "schedule", Blk(first, last), blocks_1d(first, last))
                 /\ UNCHANGED direct
            ELSE /\ call' = Frame("1d", "returned", Blk(first, last), << >>)
                 /\ direct' = Append(direct, Blk(first, last))
       ELSE /\ call' = Frame("1d", "returned", Blk(first, last), << >>)
            /\ UNCHANGED direct
    /\ UNCHANGED <<ctx, tasks, futures, accs, selVars, tmpVars, extVars>>

\* engine_dispatch_1d(functor, first, last, bool select), likewise.
engine_dispatch_1d_select(first, last, select) ==
    /\ call.pc = "idle"
    /\ first <= last
    /\ LET n == last - first IN
       IF n # 0
       THEN IF engine_select_parallel_select(select)
            THEN /\ call' = Frame("1d_select", "schedule", Blk(first, last),
                                  blocks_1d(first, last))
                 /\ UNCHANGED direct
            ELSE /\ call' = Frame("1d_select", "returned", Blk(first, last), << >>)
                 /\ direct' = Append(direct, Blk(first, last))
       ELSE /\ call' = Frame("1d_select", "returned", Blk(first, last), << >>)
            /\ UNCHANGED direct
    /\ UNCHANGED <<ctx, tasks, futures, accs, selVars, tmpVars, extVars>>

\* engine_dispatch_2d(functor, last1, last2, threshold), likewise.
engine_dispatch_2d(last1, last2, threshold) ==
    /\ call.pc = "idle"
    /\ IF last1 # 0 /\ last2 # 0
       THEN IF engine_select_parallel(last1 * last2, threshold)
            THEN /\ call' = Frame("2d", "schedule", Blk2(0, last1, 0, last2),
                                  blocks_2d(last1, last2))
                 /\ UNCHANGED direct
            ELSE /\ call' = Frame("2d", "returned", Blk2(0, last1, 0, last2), << >>)
                 /\ direct' = Append(direct, Blk2(0, last1, 0, last2))
       ELSE /\ call' = Frame("2d", "returned", Blk2(0, last1, 0, last2), << >>)
            /\ UNCHANGED direct
    /\ UNCHANGED <<ctx, tasks, futures, accs, selVars, tmpVars, extVars>>

\* engine_dispatch_1d_acc(functor, acc_functor, first, last, threshold),
\* likewise; futures(T) is value-initialized.
engine_dispatch_1d_acc(first, last, threshold) ==
    /\ call.pc = "idle"
    /\ first <= last
    /\ LET n == last - first IN
       IF n # 0
       THEN IF engine_select_parallel(n, threshold)
            THEN /\ call' = Frame("1d_acc", "schedule", Blk(first, last),
                                  blocks_1d(first, last))
                 /\ futures' = [t \in 1..Min(n, ctx.threads) |-> 0]
                 /\ UNCHANGED <<direct, accs>>
            ELSE /\ call' = Frame("1d_acc", "returned", Blk(first, last), << >>)
                 /\ direct' = Append(direct, Blk(first, last))
                 /\ accs' = Append(accs, functor(Blk(first, last)))
                 /\ UNCHANGED futures
       ELSE /\ call' = Frame("1d_acc", "returned", Blk(first, last), << >>)
            /\ UNCHANGED <<direct, futures, accs>>
    /\ UNCHANGED <<ctx, tasks, selVars, tmpVars, extVars>>

\* A slicing whose last slice stops at the last whole batch.
slices_whole_batches(n, is_aligned, S) ==
    LET T     == Min(n, ctx.threads)
        batch == n \div T
    IN  [t \in 1..T |-> Blk((t - 1) * batch, t * batch)]

\* The slices memory_slice(expr, first, last) that
\* engine_dispatch_1d_acc_slice schedules, in order. With aligned data, vectors
\* of S > 1 elements and at least S elements per thread, the batch is a whole
\* number of vectors: n_aligned = (n + (S - 1)) & ~(S - 1) is n rounded up to
\* a multiple of S, S being a power of two.
slices(n, is_aligned, S) ==
    LET T == Min(n, ctx.threads) IN
    IF is_aligned /\ S > 1 /\ n >= T * S
    THEN LET n_aligned         == ((n + (S - 1)) \div S) * S
             blocks            == n_aligned \div S
             blocks_per_thread == blocks \div T
             batch             == blocks_per_thread * S
         IN  [t \in 1..T |-> IF t < T THEN Blk((t - 1) * batch, t * batch)
                                      ELSE Blk((T - 1) * batch, n)]
    ELSE LET batch == n \div T
         IN  [t \in 1..T |-> IF t < T THEN Blk((t - 1) * batch, t * batch)
                                      ELSE Blk((T - 1) * batch, n)]

\* engine_dispatch_1d_acc_slice(expr, functor, acc_functor, threshold) on an
\* expression of n elements, up to its first schedule call or its return.
engine_dispatch_1d_acc_slice(n, is_aligned, S, threshold) ==
    /\ call.pc = "idle"
    /\ IF n # 0
       THEN IF engine_select_parallel(n, threshold)
            THEN /\ call' = Frame("1d_acc_slice", "schedule", Blk(0, n),
                                  slices(n, is_aligned, S))
                 /\ futures' = [t \in 1..Min(n, ctx.threads) |-> 0]
                 /\ UNCHANGED <<direct, accs>>
            ELSE /\ call' = Frame("1d_acc_slice", "returned", Blk(0, n), << >>)
                 /\ direct' = Append(direct, Blk(0, n))
                 /\ accs' = Append(accs, functor(Blk(0, n)))
                 /\ UNCHANGED futures
       ELSE /\ call' = Frame("1d_acc_slice", "returned", Blk(0, n), << >>)
            /\ UNCHANGED <<direct, futures, accs>>
    /\ UNCHANGED <<ctx, tasks, selVars, tmpVars, extVars>>

\* One thread_engine::schedule call of the dispatch in progress: the next
\* block is queued on the pool.
Schedule ==
    /\ call.pc = "schedule"
    /\ tasks' = Append(tasks, [blk |-> Head(call.todo), st |-> "pending"])
    /\ call' = [call EXCEPT !.todo = Tail(@), !.pc = after_schedule(Tail(call.todo))]
    /\ UNCHANGED <<ctx, direct, futures, accs, selVars, tmpVars, extVars>>

\* A free worker of the pool takes a queued task and calls the functor on it.
WorkerStart(i) ==
    /\ i \in DOMAIN tasks
    /\ tasks[i].st = "pending"
    /\ Cardinality({j \in DOMAIN tasks : tasks[j].st = "running"}) < ctx.threads
    /\ tasks' = [tasks EXCEPT ![i].st = "running"]
    /\ UNCHANGED <<ctx, call, direct, futures, accs, selVars, tmpVars, extVars>>

\* The functor call of a worker returns; the sub_functor of
\* engine_dispatch_1d_acc and of engine_dispatch_1d_acc_slice stores what it
\* returned in futures[t].
WorkerFinish(i) ==
    /\ i \in DOMAIN tasks
    /\ tasks[i].st = "running"
    /\ tasks' = [tasks EXCEPT ![i].st = "done"]
    /\ futures' = IF call.fn \in {"1d_acc", "1d_acc_slice"} /\ i \in DOMAIN futures
                  THEN [futures EXCEPT ![i] = functor(tasks[i].blk)]
                  ELSE futures
    /\ UNCHANGED <<ctx, call, direct, accs, selVars, tmpVars, extVars>>

\* thread_engine::wait() blocks the caller until the pool has no task queued
\* or running.
thread_engine_wait_returns == \A i \in DOMAIN tasks : tasks[i].st = "done"

\* thread_engine::wait() returns, and the dispatch function with it:
\* engine_dispatch_1d_acc and engine_dispatch_1d_acc_slice after they have
\* passed each element of futures to the accumulator.
Wait ==
    /\ call.pc = "wait"
    /\ thread_engine_wait_returns
    /\ call' = [call EXCEPT !.pc = "returned"]
    /\ accs' = IF call.fn \in {"1d_acc", "1d_acc_slice"} THEN accs \o futures ELSE accs
    /\ UNCHANGED <<ctx, tasks, direct, futures, selVars, tmpVars, extVars>>

ParIdle ==
    /\ ctx = [threads |-> 1, is_parallel |-> FALSE, serial |-> FALSE, parallel |-> FALSE]
    /\ call = NoFrame
    /\ tasks = << >>
    /\ direct = << >>
    /\ futures = << >>
    /\ accs = << >>

ParStart ==
    /\ ctx \in Contexts
    /\ call = NoFrame
    /\ tasks = << >>
    /\ direct = << >>
    /\ futures = << >>
    /\ accs = << >>

ParNext ==
    \/ \E first \in 0..MaxIndex, last \in 0..MaxIndex, threshold \in Thresholds :
            engine_dispatch_1d(first, last, threshold)
    \/ \E first \in 0..MaxIndex, last \in 0..MaxIndex, select \in BOOLEAN :
            engine_dispatch_1d_select(first, last, select)
    \/ \E last1 \in 0..MaxDim, last2 \in 0..MaxDim, threshold \in Thresholds :
            engine_dispatch_2d(last1, last2, threshold)
    \/ \E first \in 0..MaxIndex, last \in 0..MaxIndex, threshold \in Thresholds :
            engine_dispatch_1d_acc(first, last, threshold)
    \/ \E n \in 0..MaxSize, is_aligned \in BOOLEAN, S \in IntrinsicSizes,
            threshold \in Thresholds :
            engine_dispatch_1d_acc_slice(n, is_aligned, S, threshold)
    \/ Schedule
    \/ \E i \in 1..(MaxThreads + 1) : WorkerStart(i)
    \/ \E i \in 1..(MaxThreads + 1) : WorkerFinish(i)
    \/ Wait

(***************************************************************************)
(* Temporary expressions and their visitors                                *)
(***************************************************************************)

\* Operations performed on the expressions of one run.
MaxOps == 5
\* Object slots left free for move-constructed expressions.
NSpare == 1

\* The objects: five slots for the nodes of the expression tree, then the
\* free slots.
TreeSlots == 1 .. 5
Obj == 1 .. (5 + NSpare)

Node(k, a, b) == [kind |-> k, a |-> a, b |-> b, allocated |-> FALSE, evaluated |-> FALSE, c |-> 0]
Leaf == Node("leaf", 0, 0)
Free == Node("free", 0, 0)

\* The expression trees of a run. "un" and "bin" are temporary_expr_un and
\* temporary_expr_bin, "binary" is the element-wise binary_expr, leaves are
\* containers.
Shapes ==
    { <<Node("un", 2, 0), Leaf, Free, Free, Free>>,
      <<Node("bin", 2, 3), Node("un", 4, 0), Leaf, Leaf, Free>>,
      <<Node("un", 2, 0), Node("binary", 3, 4), Node("un", 5, 0), Leaf, Leaf>>,
      <<Node("binary", 2, 3), Node("un", 4, 0), Node("bin", 4, 5), Leaf, Leaf>>,
      <<Node("bin", 2, 3), Node("bin", 4, 5), Node("un", 5, 0), Leaf, Leaf>> }

IsTemp(o) == o.kind \in {"un", "bin"}

Operands(o) == IF o.kind = "un" THEN {o.a}
               ELSE IF o.kind \in {"bin", "binary"} THEN {o.a, o.b}
               ELSE {}

\* The objects below n in the tree of objs (n excluded).
RECURSIVE Below(_, _)
Below(objs, n) ==
    Operands(objs[n]) \cup UNION {Below(objs, m) : m \in Operands(objs[n])}

TempBelow(objs, n) == {d \in Below(objs, n) : IsTemp(objs[d])}

\* The temporaries whose result the apply of n reads: those among its operands,
\* looking through the element-wise nodes.
RECURSIVE Consumed(_, _)
Consumed(objs, n) ==
    UNION { IF IsTemp(objs[m]) THEN {m}
            ELSE IF objs[m].kind = "binary" THEN Consumed(objs, m)
            ELSE {} : m \in Operands(objs[n]) }

Ev(op, n) == [op |-> op, o |-> n]

\* The state a member function works on.
Cur == [obj |-> obj, cont |-> cont, hist |-> hist, trace |-> << >>, nv |-> FALSE,
        status |-> status]

\* allocate_temporary without the test of _c: every call creates a container.
allocate_temporary_unconditional(st, n) ==
    [st EXCEPT !.obj[n].c = Len(st.cont) + 1,
               !.obj[n].allocated = TRUE,
               !.cont = Append(@, 0),
               !.hist[n].allocCalls = @ + 1,
               !.hist[n].firstC = IF @ = 0 THEN Len(st.cont) + 1 ELSE @,
               !.trace = Append(@, Ev("allocate", n))]

\* temporary_expr::allocate_temporary
allocate_temporary(st, n) ==
    IF st.obj[n].c = 0
    THEN [st EXCEPT !.obj[n].c = Len(st.cont) + 1,
                    !.obj[n].allocated = TRUE,
                    !.cont = Append(@, 0),
                    !.hist[n].allocCalls = @ + 1,
                    !.hist[n].firstC = IF @ = 0 THEN Len(st.cont) + 1 ELSE @,
                    !.trace = Append(@, Ev("allocate", n))]
    ELSE [st EXCEPT !.obj[n].allocated = TRUE]

\* as_derived().apply(*_c): reads the operands, each temporary operand through
\* its result() and the two assertions there, and fills the container. With a
\* null _c, or an operand whose _c is null, the call dereferences a null
\* pointer: the process dies (ub = "crash") or the call goes on with garbage
\* (ub = "run"). The trace records the call, hist the completed runs.
apply(st, n, ub) ==
    LET s0 == [st EXCEPT !.trace = Append(@, Ev("apply", n))]
        unready == \E d \in Consumed(st.obj, n) :
                        ~st.obj[d].evaluated \/ ~st.obj[d].allocated
        null == st.obj[n].c = 0 \/ \E d \in Consumed(st.obj, n) : st.obj[d].c = 0
    IN  IF unready THEN [s0 EXCEPT !.status = "assert"]
        ELSE IF null /\ ub = "crash"
        THEN [s0 EXCEPT !.status = "crashed", !.hist[n].nullApply = TRUE]
        ELSE [s0 EXCEPT !.cont = IF st.obj[n].c = 0 THEN @
                                 ELSE [@ EXCEPT ![st.obj[n].c] = @ + 1],
                        !.hist[n].applyRuns = @ + 1,
                        !.hist[n].nullApply = @ \/ null]

\* evaluate without the test of the evaluated flag.
evaluate_unguarded(st, n, ub) ==
    IF st.status # "ok" THEN st
    ELSE IF ~st.obj[n].allocated THEN [st EXCEPT !.status = "assert"]
    ELSE LET s1 == apply(st, n, ub) IN
         IF s1.status # "ok" THEN s1 ELSE [s1 EXCEPT !.obj[n].evaluated = TRUE]

\* temporary_expr::evaluate
evaluate(st, n, ub) ==
    IF st.status # "ok" \/ st.obj[n].evaluated THEN st
    ELSE IF ~st.obj[n].allocated THEN [st EXCEPT !.status = "assert"]
    ELSE LET s1 == apply(st, n, ub) IN
         IF s1.status # "ok" THEN s1 ELSE [s1 EXCEPT !.obj[n].evaluated = TRUE]

\* temporary_expr::result: the two assertions, then *_c.
result(st, n, ub) ==
    IF st.status # "ok" THEN st
    ELSE IF ~st.obj[n].evaluated \/ ~st.obj[n].allocated THEN [st EXCEPT !.status = "assert"]
    ELSE IF st.obj[n].c = 0 /\ ub = "crash" THEN [st EXCEPT !.status = "crashed"]
    ELSE st

\* temporary_expr::ensure_cpu_up_to_date: memory_start() goes through result().
ensure_cpu_up_to_date(st, n, ub) ==
    LET s1 == result(st, n, ub) IN
    IF s1.status # "ok" THEN s1 ELSE [s1 EXCEPT !.trace = Append(@, Ev("sync", n))]

\* An allocator visit that allocates a node after its operands.
RECURSIVE visit_allocator_post_order(_, _)
visit_allocator_post_order(st, n) ==
    LET o == st.obj[n] IN
    CASE o.kind = "un"     -> allocate_temporary(visit_allocator_post_order(st, o.a), n)
      [] o.kind = "bin"    ->
            allocate_temporary(
                visit_allocator_post_order(visit_allocator_post_order(st, o.a), o.b), n)
      [] o.kind = "binary" ->
            visit_allocator_post_order(visit_allocator_post_order(st, o.a), o.b)
      [] OTHER             -> st

\* visit(const detail::temporary_allocator_visitor&) of temporary_expr_un,
\* temporary_expr_bin and binary_expr.
RECURSIVE visit_allocator(_, _)
visit_allocator(st, n) ==
    LET o == st.obj[n] IN
    CASE o.kind = "un"     -> visit_allocator(allocate_temporary(st, n), o.a)
      [] o.kind = "bin"    -> visit_allocator(visit_allocator(allocate_temporary(st, n), o.a), o.b)
      [] o.kind = "binary" -> visit_allocator(visit_allocator(st, o.a), o.b)
      [] OTHER             -> st

\* A tail of the evaluator visit that synchronizes whatever need_value was.
evaluate_and_sync_always(st, n, old_need_value, ub) ==
    LET s1 == evaluate(st, n, ub)
        s2 == ensure_cpu_up_to_date(s1, n, ub)
    IN  IF s2.status # "ok" THEN s2 ELSE [s2 EXCEPT !.nv = old_need_value]

\* The tail of the evaluator visit of a temporary node, after its operands.
evaluate_and_sync(st, n, old_need_value, ub) ==
    LET s1 == evaluate(st, n, ub)
        s2 == IF old_need_value THEN ensure_cpu_up_to_date(s1, n, ub) ELSE s1
    IN  IF s2.status # "ok" THEN s2 ELSE [s2 EXCEPT !.nv = old_need_value]

\* An evaluator visit that evaluates a temporary node before its operands.
RECURSIVE visit_evaluator_parent_first(_, _, _)
visit_evaluator_parent_first(st, n, ub) ==
    LET o == st.obj[n] IN
    IF st.status # "ok" THEN st
    ELSE CASE o.kind = "un" ->
                visit_evaluator_parent_first(evaluate_and_sync(st, n, st.nv, ub), o.a, ub)
           [] o.kind = "bin" ->
                LET s1 == evaluate_and_sync(st, n, st.nv, ub)
                    s2 == visit_evaluator_parent_first(s1, o.a, ub)
                IN  visit_evaluator_parent_first(s2, o.b, ub)
           [] o.kind = "binary" ->
                LET s1 == visit_evaluator_parent_first([st EXCEPT !.nv = TRUE], o.a, ub)
                    s2 == visit_evaluator_parent_first([s1 EXCEPT !.nv = TRUE], o.b, ub)
                IN  IF s2.status # "ok" THEN s2 ELSE [s2 EXCEPT !.nv = st.nv]
           [] OTHER -> st

\* visit(detail::evaluator_visitor&) of temporary_expr_un, temporary_expr_bin
\* and binary_expr; st.nv is visitor.need_value.
RECURSIVE visit_evaluator(_, _, _)
visit_evaluator(st, n, ub) ==
    LET o == st.obj[n] IN
    IF st.status # "ok" THEN st
    ELSE CASE o.kind = "un" ->
                evaluate_and_sync(visit_evaluator([st EXCEPT !.nv = is_gpu], o.a, ub),
                                  n, st.nv, ub)
           [] o.kind = "bin" ->
                LET s1 == visit_evaluator([st EXCEPT !.nv = is_gpu], o.a, ub)
                    s2 == visit_evaluator([s1 EXCEPT !.nv = is_gpu], o.b, ub)
                IN  evaluate_and_sync(s2, n, st.nv, ub)
           [] o.kind = "binary" ->
                LET s1 == visit_evaluator([st EXCEPT !.nv = TRUE], o.a, ub)
                    s2 == visit_evaluator([s1 EXCEPT !.nv = TRUE], o.b, ub)
                IN  IF s2.status # "ok" THEN s2 ELSE [s2 EXCEPT !.nv = st.nv]
           [] OTHER -> st

\* temporary_expr::operator[]
read(st, n, ub) ==
    LET s1 == result(st, n, ub) IN
    IF s1.status # "ok" THEN s1 ELSE [s1 EXCEPT !.trace = Append(@, Ev("read", n))]

\* A move construction that leaves the evaluated flag of the source as it is.
move_construct_keeps_evaluated(st, src, dst) ==
    [st EXCEPT !.obj[dst] = st.obj[src],
               !.obj[src].c = 0,
               !.hist[src].movedFrom = TRUE,
               !.hist[dst].movedTo = TRUE,
               !.hist[dst].firstC = st.obj[src].c]

\* temporary_expr(temporary_expr&& rhs), called by the move constructors of
\* temporary_expr_un and temporary_expr_bin, which copy the operands.
move_construct(st, src, dst) ==
    [st EXCEPT !.obj[dst] = st.obj[src],
               !.obj[src].evaluated = FALSE,
               !.obj[src].c = 0,
               !.hist[src].movedFrom = TRUE,
               !.hist[dst].movedTo = TRUE,
               !.hist[dst].firstC = st.obj[src].c]

\* temporary_expr(const temporary_expr& expr) = default: the flags and the
\* shared pointer _c are copied as they are.
copy_construct(st, src, dst) ==
    [st EXCEPT !.obj[dst] = st.obj[src],
               !.hist[dst].copyOf = src,
               !.hist[dst].firstC = st.obj[src].c]

Commit(st, op, n) ==
    /\ obj' = st.obj
    /\ cont' = st.cont
    /\ hist' = st.hist
    /\ trace' = st.trace
    /\ status' = st.status
    /\ lastOp' = Ev(op, n)
    /\ nops' = nops + 1
    /\ UNCHANGED <<is_gpu, selVars, parVars, extVars>>

Running == status = "ok" /\ nops < MaxOps

\* expr.visit(temporary_allocator_visitor{}) on any expression node.
AllocVisit(n) ==
    /\ Running
    /\ obj[n].kind \in {"un", "bin", "binary"}
    /\ Commit(visit_allocator(Cur, n), "alloc", n)

\* expr.visit(evaluator_visitor) on any expression node, the visitor's
\* need_value being nv on entry.
EvalVisit(n, nv, ub) ==
    /\ Running
    /\ obj[n].kind \in {"un", "bin", "binary"}
    /\ Commit(visit_evaluator([Cur EXCEPT !.nv = nv], n, ub), "eval", n)

\* expr[i] on a temporary node.
Read(n, ub) ==
    /\ Running
    /\ IsTemp(obj[n])
    /\ Commit(read(Cur, n, ub), "read", n)

\* D moved(std::move(expr)) for a temporary node whose operands are leaves
\* (held by reference, so that the copy of _a and _b is the same object).
MoveConstruct(src, dst) ==
    /\ Running
    /\ IsTemp(obj[src])
    /\ \A m \in Operands(obj[src]) : obj[m].kind = "leaf"
    /\ obj[dst].kind = "free"
    /\ \A k \in Obj : (k > 5 /\ k < dst) => obj[k].kind # "free"
    /\ dst > 5
    /\ Commit(move_construct(Cur, src, dst), "move", src)

\* D copy(expr) for a temporary node whose operands are leaves.
CopyConstruct(src, dst) ==
    /\ Running
    /\ IsTemp(obj[src])
    /\ \A m \in Operands(obj[src]) : obj[m].kind = "leaf"
    /\ obj[dst].kind = "free"
    /\ \A k \in Obj : (k > 5 /\ k < dst) => obj[k].kind # "free"
    /\ dst > 5
    /\ Commit(copy_construct(Cur, src, dst), "copy", src)

\* What has happened to an object so far: the calls of its allocate(), the
\* completed runs of its apply, whether an apply ran on a null container,
\* whether it was the source or the target of a move construction, the
\* first container it held, and the object it is a copy of.
NoHist == [allocCalls |-> 0, applyRuns |-> 0, nullApply |-> FALSE,
           movedFrom |-> FALSE, movedTo |-> FALSE, firstC |-> 0, copyOf |-> 0]

TmpIdle ==
    /\ obj = [k \in Obj |-> Free]
    /\ cont = << >>
    /\ hist = [k \in Obj |-> NoHist]
    /\ trace = << >>
    /\ lastOp = Ev("none", 0)
    /\ is_gpu = FALSE
    /\ status = "ok"
    /\ nops = 0

IdleInput ==
    [blas |-> FALSE, cublas |-> FALSE, vec |-> FALSE, dma |-> TRUE, vectorizable |-> FALSE,
     T |-> "float", forced |-> FALSE, impl |-> "STD", n1 |-> 1, n2 |-> 1, n3 |-> 1]

SelIdle == selIn = IdleInput /\ selOut = NoCall

TmpInit ==
    /\ SelIdle
    /\ ParIdle
    /\ ExtIdle
    /\ \E s \in Shapes : obj = [k \in Obj |-> IF k \in TreeSlots THEN s[k] ELSE Free]
    /\ cont = << >>
    /\ hist = [k \in Obj |-> NoHist]
    /\ trace = << >>
    /\ lastOp = Ev("none", 0)
    /\ is_gpu \in BOOLEAN
    /\ status = "ok"
    /\ nops = 0

TmpNext ==
    \/ \E n \in Obj : AllocVisit(n)
    \/ \E n \in Obj, nv \in BOOLEAN, ub \in {"crash", "run"} : EvalVisit(n, nv, ub)
    \/ \E n \in Obj, ub \in {"crash", "run"} : Read(n, ub)
    \/ \E src \in Obj, dst \in Obj : MoveConstruct(src, dst)

SpecTmp == TmpInit /\ [][TmpNext]_vars


\* ---- properties of the temporary expressions ----

Temps == {n \in Obj : IsTemp(obj[n])}

\* The positions of the last operation's trace where op was called on n.
At(op, n) == {i \in DOMAIN trace : trace[i] = Ev(op, n)}

\* An object that has only been visited and read: neither the source nor the
\* target of a move construction.
Unmoved(n) == ~hist[n].movedFrom /\ ~hist[n].movedTo

\* C3: on one temporary expression object that is only visited and read after
\* its allocation, apply runs exactly once: an evaluated object has run its
\* apply once and its result has been filled once, however many evaluator
\* visits and element reads followed; an unevaluated one has not run it.
C3_ApplyExactlyOnce ==
    \A n \in Temps : Unmoved(n) =>
        /\ hist[n].applyRuns = (IF obj[n].evaluated THEN 1 ELSE 0)
        /\ obj[n].evaluated => (obj[n].c # 0 /\ cont[obj[n].c] = 1)

\* An evaluated, unmoved object was visited by the evaluator or read once more,
\* and that operation called no apply.
C3_Witness ==
    \E n \in Temps :
        /\ Unmoved(n) /\ obj[n].evaluated /\ hist[n].applyRuns = 1
        /\ lastOp \in {Ev("eval", n), Ev("read", n)}
        /\ At("apply", n) = {}
        /\ status = "ok"

\* C4: for every temporary expression, in every execution, apply runs on an
\* allocated container and a read returns a value of a filled container;
\* an evaluate() before allocation or a read before evaluation stops on an
\* assertion, so the program never dereferences a null container.
C4_AllocatedBeforeApplyBeforeRead ==
    /\ status \in {"ok", "assert"}
    /\ \A n \in Temps : ~hist[n].nullApply
    /\ \A n \in Temps : (lastOp = Ev("read", n) /\ status = "ok")
                            => (obj[n].c # 0 /\ cont[obj[n].c] >= 1)

\* C5: in an Evaluate pass, when the apply of a temporary node is called, every
\* temporary node among its sub-expressions has completed its apply: earlier
\* in the same pass, or before the pass.
C5_ChildrenEvaluatedFirst ==
    lastOp.op = "eval" =>
        \A i \in DOMAIN trace : trace[i].op = "apply" =>
            \A d \in TempBelow(obj, trace[i].o) :
                IF At("apply", d) # {}
                THEN \A j \in At("apply", d) : j < i
                ELSE obj[d].evaluated

\* An Evaluate pass ran the apply of a node and of a temporary below it.
C5_Witness ==
    /\ lastOp.op = "eval" /\ status = "ok"
    /\ \E n \in Temps : \E d \in TempBelow(obj, n) :
            At("apply", n) # {} /\ At("apply", d) # {}

\* The temporary nodes of the subtree the last visit ran on.
Visited == {n \in {lastOp.o} \cup Below(obj, lastOp.o) : IsTemp(obj[n])}

C7_AllocateAtMostOnce ==
    \A n \in Temps : ~hist[n].movedFrom =>
        /\ hist[n].allocCalls <= 1
        /\ obj[n].c # 0 => obj[n].c = hist[n].firstC

\* An allocated object was visited by the allocator again; allocate() was not
\* called again.
C7_Witness ==
    \E n \in Temps :
        /\ ~hist[n].movedFrom /\ hist[n].allocCalls = 1
        /\ lastOp = Ev("alloc", n) /\ At("allocate", n) = {}
        /\ nops >= 2

\* The slot a move construction of the next step fills.
MovedTo(dst) == obj[dst].kind = "free" /\ obj'[dst].kind # "free"

AtNext(op, n) == {i \in DOMAIN trace' : trace'[i] = Ev(op, n)}

\* visitor.need_value when the visit of the temporary node m begins, in an
\* evaluator visit that entered the expression at root with need_value nv: nv
\* for the root, decay_traits<D>::is_gpu under a temporary node, true under an
\* element-wise node.
NeedValueAt(m, root, nv) ==
    IF m = root THEN nv
    ELSE LET p == CHOOSE q \in Obj : m \in Operands(obj[q])
         IN  IF IsTemp(obj[p]) THEN is_gpu ELSE TRUE

\* C25: in the evaluator visit of a temporary node, ensure_cpu_up_to_date is
\* performed on the node's result after the node's apply, and it is performed
\* if and only if need_value was true when the visit of that node began.
C25_SyncAfterApplyIffNeedValue ==
    [][ \A n \in Obj, nv \in BOOLEAN, ub \in {"crash", "run"} :
          (EvalVisit(n, nv, ub) /\ status' = "ok") =>
            \A m \in ({n} \cup Below(obj, n)) : IsTemp(obj[m]) =>
                /\ (AtNext("sync", m) # {}) <=> NeedValueAt(m, n, nv)
                /\ \A i \in AtNext("sync", m) :
                      /\ obj'[m].evaluated
                      /\ \A j \in AtNext("apply", m) : j < i
      ]_vars

\* An evaluator visit that needed the value ran the apply of a temporary node
\* and synchronized it afterwards, and ran the apply of a temporary below it
\* without synchronizing that one.
C25_Witness ==
    /\ lastOp.op = "eval" /\ status = "ok" /\ ~is_gpu
    /\ \E n \in Temps :
          /\ lastOp.o = n
          /\ \E i \in At("apply", n) : \E j \in At("sync", n) : i < j
          /\ \E m \in TempBelow(obj, n) : At("apply", m) # {} /\ At("sync", m) = {}

\* ---- copies of a temporary expression ----

CopyNext ==
    \/ \E n \in Obj : AllocVisit(n)
    \/ \E n \in Obj, nv \in BOOLEAN, ub \in {"crash", "run"} : EvalVisit(n, nv, ub)
    \/ \E n \in Obj, ub \in {"crash", "run"} : Read(n, ub)
    \/ \E src \in Obj, dst \in Obj : CopyConstruct(src, dst)

SpecCopy == TmpInit /\ [][CopyNext]_vars

\* C26: the copies of a temporary expression share one result container, and
\* across the copies that share a container apply is executed on it at most
\* once, in whatever order the copies are made, allocated, evaluated and read.
C26_CopiesShareOneApply ==
    /\ \A d \in Temps :
          (hist[d].copyOf # 0 /\ obj[d].c # 0 /\ obj[hist[d].copyOf].c # 0)
            => obj[d].c = obj[hist[d].copyOf].c
    /\ \A c \in DOMAIN cont : cont[c] <= 1

\* ---- properties of the parallel dispatch ----

ParInit == SelIdle /\ TmpIdle /\ ParStart /\ ExtIdle

SpecPar == ParInit /\ [][ParNext]_vars

\* The blocks scheduled so far, in order.
Scheduled == [i \in DOMAIN tasks |-> tasks[i].blk]

\* The dispatch in progress is a parallel engine_dispatch_1d whose schedule
\* calls are all made.
Dispatched1d ==
    /\ call.fn \in {"1d", "1d_select"}
    /\ call.pc \in {"wait", "returned"}
    /\ tasks # << >>

\* C9: when engine_dispatch_1d runs in parallel over [first, last), the blocks
\* passed to the functor are at most min(last - first, threads), each is
\* non-empty, each starts where the one before ends, the first starts at first
\* and the last ends at last, so that every index of [first, last) is in
\* exactly one block and no block holds another index.
C9_BlocksPartitionRange ==
    Dispatched1d =>
        LET first == call.range.first
            last  == call.range.last
            B     == Scheduled
        IN  /\ Len(B) <= Min(last - first, ctx.threads)
            /\ \A i \in DOMAIN B : B[i].first < B[i].last
            /\ \A i \in DOMAIN B : i > 1 => B[i].first = B[i - 1].last
            /\ B[1].first = first /\ B[Len(B)].last = last
            /\ \A k \in 0..MaxIndex + 1 :
                    Cardinality({i \in DOMAIN B : B[i].first <= k /\ k < B[i].last})
                        = (IF first <= k /\ k < last THEN 1 ELSE 0)
            /\ direct = << >>

\* A parallel engine_dispatch_1d over a range that the thread count does not
\* divide: several blocks, the last one longer than the others.
C9_Witness ==
    /\ Dispatched1d
    /\ Len(tasks) >= 2
    /\ tasks[Len(tasks)].blk.last - tasks[Len(tasks)].blk.first
            > tasks[1].blk.last - tasks[1].blk.first
    /\ call.range.first > 0

\* The dispatch in progress is a parallel engine_dispatch_2d whose schedule
\* calls are all made.
Dispatched2d ==
    /\ call.fn = "2d"
    /\ call.pc \in {"wait", "returned"}
    /\ tasks # << >>

\* C28: when engine_dispatch_2d runs in parallel over [0, last1) x [0, last2),
\* the scheduled blocks are non-empty rectangles, no index is in two of them,
\* their union is the whole index rectangle, and at most threads blocks are
\* scheduled.
C28_BlocksPartitionRectangle ==
    Dispatched2d =>
        LET B == Scheduled IN
            /\ \A i \in DOMAIN B : B[i].first < B[i].last /\ B[i].first2 < B[i].last2
            /\ \A i \in DOMAIN B : \A j \in DOMAIN B :
                    i # j => Indices(B[i]) \cap Indices(B[j]) = {}
            /\ UNION {Indices(B[i]) : i \in DOMAIN B} = Indices(call.range)
            /\ Len(B) <= ctx.threads
            /\ direct = << >>

\* A parallel engine_dispatch_2d where the extent is not a multiple of the
\* number of blocks along it: the loop passed a row or a column that starts
\* at the end of the range, and fewer than threads blocks were scheduled.
C28_Witness ==
    /\ Dispatched2d
    /\ Len(tasks) >= 2
    /\ Len(tasks) < ctx.threads

\* C10: when a dispatch function has returned, every block it had to schedule
\* has been scheduled and the functor call of every scheduled block has
\* completed: no task is pending or running.
C10_ReturnsAfterAllCompleted ==
    call.pc = "returned" =>
        /\ call.todo = << >>
        /\ \A i \in DOMAIN tasks : tasks[i].st = "done"

\* A dispatch function returned after the pool ran several blocks for it.
C10_Witness ==
    /\ call.pc = "returned"
    /\ call.fn \in {"2d", "1d_acc"}
    /\ Len(tasks) >= 2
    /\ \A i \in DOMAIN tasks : tasks[i].st = "done"


\* What the serial path of engine_dispatch_1d(first, last, threshold) does in
\* one step: one call of functor(first, last) by the main thread, nothing
\* scheduled, and the function has returned.
SerialCall1d(first, last) ==
    /\ direct' = Append(direct, Blk(first, last))
    /\ tasks' = tasks
    /\ call'.pc = "returned"

RECURSIVE SumSeq(_)
SumSeq(s) == IF s = << >> THEN 0 ELSE Head(s) + SumSeq(Tail(s))

\* C12: with a functor that returns the number of indices of the block or slice
\* it is given and an accumulator that adds, engine_dispatch_1d_acc over
\* [first, last) and engine_dispatch_1d_acc_slice over an expression of n
\* elements have accumulated exactly last - first, respectively n, when they
\* return, on the serial path and on the parallel one.
C12_AccumulatedTotal ==
    (call.fn \in {"1d_acc", "1d_acc_slice"} /\ call.pc = "returned")
        => SumSeq(accs) = call.range.last - call.range.first

\* engine_dispatch_1d_acc_slice returned after a parallel dispatch of aligned
\* slices, the size not a multiple of the batch.
C12_Witness ==
    /\ call.fn = "1d_acc_slice" /\ call.pc = "returned"
    /\ Len(tasks) >= 2
    /\ tasks[1].blk.last - tasks[1].blk.first >= 2
    /\ tasks[Len(tasks)].blk.last - tasks[Len(tasks)].blk.first
            > tasks[1].blk.last - tasks[1].blk.first
    /\ Len(accs) = Len(tasks)
    /\ SumSeq(accs) = call.range.last

(***************************************************************************)
(* The local context of concurrent evaluations                             *)
(***************************************************************************)

\* Threads that evaluate expressions concurrently.
NThreads == 2
Threads == 1..NThreads

\* local_context().gemm_selector: forced_impl<gemm_impl>.
GemmSelectors ==
    {[forced |-> FALSE, impl |-> "STD"]} \cup {[forced |-> TRUE, impl |-> g] : g \in GemmTags}

\* The build and the operands of the product the threads evaluate.
CtxInputs ==
    { [blas |-> bl, cublas |-> cu, vec |-> ve, dma |-> TRUE, vectorizable |-> vz,
       T |-> "float", n1 |-> 1, n2 |-> 1, n3 |-> 1] :
        bl \in BOOLEAN, cu \in BOOLEAN, ve \in BOOLEAN, vz \in BOOLEAN }

\* A context that all the threads share: a write by one thread is a write to
\* the context of each.
set_shared_context(c, t, v) == [u \in DOMAIN c |-> [c[u] EXCEPT !.gemm_selector = v]]

\* local_context() in thread t: each thread has a context of its own.
local_context(c, t) == c[t].gemm_selector

\* local_context().gemm_selector = v in thread t.
set_local_context(c, t, v) == [c EXCEPT ![t].gemm_selector = v]

\* The selector input of a call in a context.
WithContext(x, sel) ==
    [blas |-> x.blas, cublas |-> x.cublas, vec |-> x.vec, dma |-> x.dma,
     vectorizable |-> x.vectorizable, T |-> x.T, forced |-> sel.forced, impl |-> sel.impl,
     n1 |-> x.n1, n2 |-> x.n2, n3 |-> x.n3]

\* Thread t enters a scope that forces an implementation.
Force(t, impl) ==
    /\ ~local_context(thr, t).forced
    /\ thr' = set_local_context(thr, t, [forced |-> TRUE, impl |-> impl])
    /\ UNCHANGED <<arg, res, selVars, tmpVars, parVars>>

\* Thread t leaves the scope.
Unforce(t) ==
    /\ local_context(thr, t).forced
    /\ thr' = set_local_context(thr, t, [forced |-> FALSE, impl |-> "STD"])
    /\ UNCHANGED <<arg, res, selVars, tmpVars, parVars>>

\* Thread t evaluates the product: select_gemm_impl reads local_context().
ThreadSelect(t) ==
    /\ thr' = [thr EXCEPT ![t].out = select_gemm_impl(WithContext(arg, local_context(thr, t)))]
    /\ UNCHANGED <<arg, res, selVars, tmpVars, parVars>>

CtxInit ==
    /\ SelIdle /\ TmpIdle /\ ParIdle
    /\ thr = [t \in Threads |-> [gemm_selector |-> [forced |-> FALSE, impl |-> "STD"],
                                 out |-> Ret("none", FALSE)]]
    /\ arg \in CtxInputs
    /\ res = [op |-> "none"]

CtxNext ==
    \/ \E t \in Threads, impl \in GemmTags : Force(t, impl)
    \/ \E t \in Threads : Unforce(t)
    \/ \E t \in Threads : ThreadSelect(t)

SpecCtx == CtxInit /\ [][CtxNext]_vars

MaxExtent == 2

\* The shapes of the 2D operands: <<dim 0, dim 1>>.
Shapes2 == (1..MaxExtent) \X (1..MaxExtent)

\* The operands of an operation: a, b and the destination c.
Operands3 == [a : Shapes2, b : Shapes2, c : Shapes2]

\* What an operation has done so far: the validations and the writes of the
\* destination in order, and whether it goes on, or has stopped on a failed
\* assertion.
Started == [ev |-> << >>, status |-> "ok"]

\* cpp_assert(cond, ...) of the validation named v.
validate(r, v, cond) ==
    IF r.status # "ok" THEN r
    ELSE [r EXCEPT !.ev = Append(@, v), !.status = IF cond THEN "ok" ELSE "abort"]

\* n writes of elements of the destination.
write(r, n) ==
    IF r.status # "ok" THEN r
    ELSE [r EXCEPT !.ev = @ \o [i \in 1..n |-> "write"]]

\* basic_mm_mul_expr::size(a, b)
mm_mul_size(a, b) == a[1] * b[2]

\* basic_mm_mul_expr::dim(a, b, d)
mm_mul_dim(a, b, d) == IF d = 0 THEN a[1] ELSE b[2]

\* detail::check_mm_mul_sizes(a, b, c)
check_mm_mul_sizes(r, a, b, c) ==
    validate(r, "check_mm_mul_sizes", a[2] = b[1] /\ a[1] = c[1] /\ b[2] = c[2])

\* An apply that starts to write c before it has checked the sizes.
mm_mul_apply_checks_late(r, a, b, c) ==
    write(check_mm_mul_sizes(write(r, 1), a, b, c), c[1] * c[2] - 1)

\* basic_mm_mul_expr::apply(a, b, c): the check, then the implementation, which
\* writes every element of c.
mm_mul_apply(r, a, b, c) == write(check_mm_mul_sizes(r, a, b, c), c[1] * c[2])

\* validate_expression(lhs, rhs) for dynamic operands: the sizes are equal.
validate_expression(r, lhs_size, rhs_size) ==
    validate(r, "validate_expression", lhs_size = rhs_size)

\* standard_evaluator::pre_assign_rhs on an expression over the temporary
\* a * b: the temporary is allocated with the dimensions of the product and
\* evaluated into its own container, which is not the destination.
pre_assign_rhs(r, a, b) ==
    LET tmp == <<mm_mul_dim(a, b, 0), mm_mul_dim(a, b, 1)>>
        r1  == check_mm_mul_sizes(r, a, b, tmp)
    IN  r1

\* std_add_evaluate(rhs, lhs): the temporaries of rhs are evaluated, then each
\* element of lhs is updated.
std_add_evaluate(r, a, b, lhs) == write(pre_assign_rhs(r, a, b), lhs[1] * lhs[2])

\* operator+=(lhs, rhs) with rhs the element-wise expression (a * b) + (a * b),
\* whose size is the size of its left operand.
operator_add_assign(r, lhs, a, b) ==
    std_add_evaluate(validate_expression(r, lhs[1] * lhs[2], mm_mul_size(a, b)), a, b, lhs)

\* transpose_expr::check(a, c) for dynamic operands of the same storage order.
transpose_check(r, a, c) ==
    validate(r, "transpose_check", c[1] = a[2] /\ c[2] = a[1])

\* transpose_expr::assign_to(c) for a container a: pre_assign_rhs and
\* pre_assign_lhs have no temporary to evaluate, then the check, then
\* detail::transpose::apply, which writes every element of c.
transpose_assign_to(r, a, c) == write(transpose_check(r, a, c), c[1] * c[2])

Finished(r) == [r EXCEPT !.status = IF @ = "ok" THEN "done" ELSE @]

\* c += (a * b) + (a * b)
AddAssign ==
    /\ res = [op |-> "none"]
    /\ res' = [op |-> "add_assign"] @@ Finished(operator_add_assign(Started, arg.c, arg.a, arg.b))
    /\ UNCHANGED <<arg, thr, selVars, tmpVars, parVars>>

\* The evaluation of a * b into c.
MmulApply ==
    /\ res = [op |-> "none"]
    /\ res' = [op |-> "mm_mul"] @@ Finished(mm_mul_apply(Started, arg.a, arg.b, arg.c))
    /\ UNCHANGED <<arg, thr, selVars, tmpVars, parVars>>

\* c = transpose(a)
TransposeAssign ==
    /\ res = [op |-> "none"]
    /\ res' = [op |-> "transpose"] @@ Finished(transpose_assign_to(Started, arg.a, arg.c))
    /\ UNCHANGED <<arg, thr, selVars, tmpVars, parVars>>

AsgInit ==
    /\ SelIdle /\ TmpIdle /\ ParIdle
    /\ thr = << >>
    /\ arg \in Operands3
    /\ res = [op |-> "none"]

AsgNext == AddAssign \/ MmulApply \/ TransposeAssign

SpecAsg == AsgInit /\ [][AsgNext]_vars

\* C14: in an assignment or compound assignment into a destination, every
\* shape validation comes before the first write of the destination: the
\* operation ends with every element of the destination written, or stops on a
\* failed validation with no element written.
C14_ValidationBeforeWrite ==
    res.op \in {"add_assign", "mm_mul", "transpose"} =>
        /\ \A i, j \in DOMAIN res.ev : (res.ev[i] = "write" /\ res.ev[j] # "write") => j < i
        /\ res.status \in {"done", "abort"}
        /\ res.status = "done" =>
                Cardinality({i \in DOMAIN res.ev : res.ev[i] = "write"}) = arg.c[1] * arg.c[2]
        /\ res.status = "abort" => \A i \in DOMAIN res.ev : res.ev[i] # "write"

\* A compound assignment passed validate_expression (the sizes are equal) and
\* stopped on the size check of its temporary, with the destination untouched.
C14_Witness ==
    /\ res.op = "add_assign" /\ res.status = "abort"
    /\ res.ev = <<"validate_expression", "check_mm_mul_sizes">>

(***************************************************************************)
(* size(), dim(d) and dimensions() of the expressions                      *)
(***************************************************************************)

RECURSIVE Product(_)
Product(s) == IF s = << >> THEN 1 ELSE Head(s) * Product(Tail(s))

\* What the traits of an expression report: size(), and dim(d) for each d in
\* [0, dimensions()).
Traits(size, dims) == [size |-> size, dims |-> dims]

\* A container of the given shape.
container(shape) == Traits(Product(shape), shape)

\* etl_traits<basic_mm_mul_expr>: size(a, b), dim(a, b, d), dimensions() = 2.
mm_mul_traits(a, b) ==
    Traits(mm_mul_size(a.dims, b.dims),
           <<mm_mul_dim(a.dims, b.dims, 0), mm_mul_dim(a.dims, b.dims, 1)>>)

\* etl_traits<binary_expr>: size, dim and dimensions are those of the
\* sub-expression get(v).
binary_expr_traits(sub) == Traits(sub.size, sub.dims)

\* dyn_matrix_view(sub, dims...): dimensions{{dims...}}, _size(etl::size(sub));
\* etl_traits<dyn_matrix_view>::size is _size, dim(v, d) is dimensions[d].
dyn_matrix_view(sub, dims) == Traits(sub.size, dims)

\* reshape(value, sizes...): the assertion compares size(value) with the size
\* of a view built over value, then the view is returned.
reshape(value, sizes) ==
    IF value.size = dyn_matrix_view(value, sizes).size
    THEN [status |-> "done"] @@ dyn_matrix_view(value, sizes)
    ELSE [status |-> "abort", size |-> 0, dims |-> << >>]

\* a * b for containers whose inner dimensions agree.
BuildMmul ==
    /\ res = [op |-> "none"]
    /\ arg.a[2] = arg.b[1]
    /\ res' = [op |-> "build_mm_mul", status |-> "done"]
                @@ mm_mul_traits(container(arg.a), container(arg.b))
    /\ UNCHANGED <<arg, thr, selVars, tmpVars, parVars>>

\* a + b for containers of the same shape.
BuildBinary ==
    /\ res = [op |-> "none"]
    /\ arg.a = arg.b
    /\ res' = [op |-> "build_binary", status |-> "done"]
                @@ binary_expr_traits(container(arg.a))
    /\ UNCHANGED <<arg, thr, selVars, tmpVars, parVars>>

\* reshape(a, c[1], c[2]) for a container a.
Reshape ==
    /\ res = [op |-> "none"]
    /\ res' = [op |-> "reshape"] @@ reshape(container(arg.a), arg.c)
    /\ UNCHANGED <<arg, thr, selVars, tmpVars, parVars>>

DimInit == AsgInit

DimNext == BuildMmul \/ BuildBinary \/ Reshape

SpecDim == DimInit /\ [][DimNext]_vars

\* C15: for every expression that has been constructed, size() is the product
\* of dim(d) over d in [0, dimensions()).
C15_SizeIsProductOfDims ==
    (res.op \in {"build_mm_mul", "build_binary", "reshape"} /\ res.status = "done")
        => res.size = Product(res.dims)

(***************************************************************************)
(* alias                                                                   *)
(***************************************************************************)

\* The memory buffers the containers of a tree are taken from.
NBuf == 2
Bufs == 1..NBuf

\* An expression tree, the buffer of each of its containers, and the buffer of
\* the expression X the tree is tested against.
AliasInputs ==
    { [tree |-> [k \in TreeSlots |-> s[k]], buf |-> b, x |-> x] :
        s \in Shapes, b \in [TreeSlots -> Bufs], x \in Bufs }

\* An alias that looks at the first operand only.
RECURSIVE alias_of_first_operand(_, _, _, _)
alias_of_first_operand(tree, buf, n, x) ==
    LET o == tree[n] IN
    CASE o.kind = "leaf" -> buf[n] = x
      [] o.kind = "free" -> FALSE
      [] OTHER           -> alias_of_first_operand(tree, buf, o.a, x)

\* e.alias(X): a container aliases X if their memory ranges overlap
\* (memory_alias), binary_expr and temporary_expr_bin ask both operands,
\* temporary_expr_un asks its operand.
RECURSIVE alias(_, _, _, _)
alias(tree, buf, n, x) ==
    LET o == tree[n] IN
    CASE o.kind = "leaf"   -> buf[n] = x
      [] o.kind = "un"     -> alias(tree, buf, o.a, x)
      [] o.kind = "bin"    -> alias(tree, buf, o.a, x) \/ alias(tree, buf, o.b, x)
      [] o.kind = "binary" -> alias(tree, buf, o.a, x) \/ alias(tree, buf, o.b, x)
      [] OTHER             -> FALSE

\* n.alias(X) on a node of the tree.
AliasQuery(n) ==
    /\ res = [op |-> "none"]
    /\ arg.tree[n].kind # "free"
    /\ res' = [op |-> "alias", n |-> n, value |-> alias(arg.tree, arg.buf, n, arg.x)]
    /\ UNCHANGED <<arg, thr, selVars, tmpVars, parVars>>

AliasInit ==
    /\ SelIdle /\ TmpIdle /\ ParIdle
    /\ thr = << >>
    /\ arg \in AliasInputs
    /\ res = [op |-> "none"]

AliasNext == \E n \in TreeSlots : AliasQuery(n)

SpecAlias == AliasInit /\ [][AliasNext]_vars

\* C16: a composite expression (binary, temporary unary, temporary binary)
\* reports that it aliases X exactly when one of its sub-expressions reports
\* that it aliases X; hence exactly when one of the containers below it shares
\* the memory of X.
C16_AliasBottomUp ==
    (res.op = "alias" /\ arg.tree[res.n].kind \in {"un", "bin", "binary"}) =>
        /\ res.value <=> \E m \in Operands(arg.tree[res.n]) :
                                alias(arg.tree, arg.buf, m, arg.x)
        /\ res.value <=> \E m \in Below(arg.tree, res.n) :
                                arg.tree[m].kind = "leaf" /\ arg.buf[m] = arg.x

\* A temporary binary node whose first operand does not alias X and whose
\* second operand does reports that it aliases X.
C16_Witness ==
    /\ res.op = "alias" /\ res.value
    /\ arg.tree[res.n].kind = "bin"
    /\ ~alias(arg.tree, arg.buf, arg.tree[res.n].a, arg.x)
    /\ alias(arg.tree, arg.buf, arg.tree[res.n].b, arg.x)

(***************************************************************************)
(* Builders of element-wise binary expressions                             *)
(***************************************************************************)

\* The builders of expression_builder.hpp that take two expressions and
\* call validate_expression: operator-, operator+, operator*, operator>>,
\* scale, operator/, operator%.
ValidatingBuilders == {"minus", "plus", "mul", "shr", "scale", "div", "mod"}

\* Two operands of a builder.
BuilderInputs == [lhs : Shapes2, rhs : Shapes2]

\* return {lhs, rhs}: the binary_expr over the two operands.
construct(r, lhs, rhs) ==
    IF r.status # "ok" THEN r
    ELSE [r EXCEPT !.ev = Append(@, "construct")] @@ [node |-> [lhs |-> lhs, rhs |-> rhs]]

\* operator+(lhs, rhs) and the other validating builders.
binary_builder(lhs, rhs) ==
    construct(validate_expression(Started, lhs[1] * lhs[2], rhs[1] * rhs[2]), lhs, rhs)

\* max(lhs, rhs) on two expressions: the node is returned at once.
max(lhs, rhs) == construct(Started, lhs, rhs)

\* min(lhs, rhs) on two expressions: the node is returned at once.
min(lhs, rhs) == construct(Started, lhs, rhs)

BuilderCall(op, r) ==
    /\ res = [op |-> "none"]
    /\ res' = [op |-> op] @@ Finished(r)
    /\ UNCHANGED <<arg, thr, selVars, tmpVars, parVars>>

BuildValidated(op) == BuilderCall(op, binary_builder(arg.lhs, arg.rhs))

BuildMax == BuilderCall("max", max(arg.lhs, arg.rhs))

BuildMin == BuilderCall("min", min(arg.lhs, arg.rhs))

BuilderInit ==
    /\ SelIdle /\ TmpIdle /\ ParIdle
    /\ thr = << >>
    /\ arg \in BuilderInputs
    /\ res = [op |-> "none"]

BuilderNext ==
    \/ \E op \in ValidatingBuilders : BuildValidated(op)
    \/ BuildMax
    \/ BuildMin

SpecBuilder == BuilderInit /\ [][BuilderNext]_vars

Built == res.op \in ValidatingBuilders \cup {"max", "min"} /\ res.status = "done"

\* C17: every builder of an element-wise operation on two expressions
\* validates that its operands have the same shape before it constructs the
\* node: a node that was built has operands of identical shape, and the
\* validation precedes the construction.
C17_ElementWiseOperandsSameShape ==
    Built =>
        /\ res.node.lhs = res.node.rhs
        /\ res.ev = <<"validate_expression", "construct">>

(***************************************************************************)
(* Shape checks of the 4D convolutions                                     *)
(***************************************************************************)

\* The strides S1, S2 and the paddings P1, P2 of a convolution.
Strides == {1, 2}
Paddings == {0, 1}

\* The spatial extents (dimensions 2 and 3) of the input, of the kernel and of
\* the destination, with the strides and the paddings.  The batch and channel
\* dimensions (0 and 1) are taken as matching.
ConvInputs ==
    [input : Shapes2, kernel : Shapes2,
     conv : (1..2 * MaxExtent) \X (1..2 * MaxExtent),
     S : Strides \X Strides, P : Paddings \X Paddings]

\* etl::dim(conv, d) == (etl::dim(input, d) - etl::dim(kernel, d) + 2 * P) / S + 1
\* in unsigned 64-bit arithmetic: when input - kernel + 2 * P is negative the
\* difference wraps, and the right-hand side is 0 for S = 1 and a difference of
\* -1, and at least 2^63 - 1 otherwise, which no extent equals.
valid_dim(c, i, k, P, S) ==
    LET d == i - k + 2 * P IN
    IF d >= 0 THEN c = d \div S + 1 ELSE (S = 1 /\ d = -1 /\ c = 0)

\* conv4_valid_impl<S1, S2, P1, P2>::check(input, kernel, conv)
conv4_valid_check(r, x) ==
    validate(validate(r, "conv_dims",
                      /\ valid_dim(x.conv[1], x.input[1], x.kernel[1], x.P[1], x.S[1])
                      /\ valid_dim(x.conv[2], x.input[2], x.kernel[2], x.P[2], x.S[2])),
             "kernel_le_input",
             x.input[1] >= x.kernel[1] /\ x.input[2] >= x.kernel[2])

\* conv4_valid_back_impl<S1, S2, P1, P2>::check(input, kernel, conv)
conv4_valid_back_check(r, x) ==
    validate(r, "conv_dims",
             /\ valid_dim(x.conv[1], x.input[1], x.kernel[1], x.P[1], x.S[1])
             /\ valid_dim(x.conv[2], x.input[2], x.kernel[2], x.P[2], x.S[2]))

\* conv4_full_impl::check(input, kernel, conv)
conv4_full_check(r, x) ==
    validate(r, "conv_dims",
             /\ x.conv[1] = x.input[1] + x.kernel[1] - 1
             /\ x.conv[2] = x.input[2] + x.kernel[2] - 1)

ConvCheck(op, r) ==
    /\ res = [op |-> "none"]
    /\ res' = [op |-> op] @@ Finished(r)
    /\ UNCHANGED <<arg, thr, selVars, tmpVars, parVars>>

Conv4Valid == ConvCheck("conv4_valid", conv4_valid_check(Started, arg))

Conv4ValidBack == ConvCheck("conv4_valid_back", conv4_valid_back_check(Started, arg))

Conv4Full == ConvCheck("conv4_full", conv4_full_check(Started, arg))

ConvInit ==
    /\ SelIdle /\ TmpIdle /\ ParIdle
    /\ thr = << >>
    /\ arg \in ConvInputs
    /\ res = [op |-> "none"]

ConvNext == Conv4Valid \/ Conv4ValidBack \/ Conv4Full

SpecConv == ConvInit /\ [][ConvNext]_vars

\* C18: every convolution shape check rejects a kernel larger than the input
\* in a spatial dimension: operands a check has accepted have
\* kernel extent <= input extent in both spatial dimensions, whatever the
\* variant, the strides and the paddings.
C18_KernelNotLargerThanInput ==
    (res.op \in {"conv4_valid", "conv4_valid_back", "conv4_full"} /\ res.status = "done") =>
        /\ arg.kernel[1] <= arg.input[1]
        /\ arg.kernel[2] <= arg.input[2]

(***************************************************************************)
(* Builders that take a destination                                        *)
(***************************************************************************)

\* The branches of conv_2d_valid_multi: is_mkl_enabled && conv_valid_fft,
\* is_cblas_enabled || is_cublas_enabled, and the standard version.
MultiBranches == {"fft", "blas", "std"}

\* What an out-of-bounds access of the destination does: it is stopped, or it
\* goes on and the function returns.
OutOfBounds == {"abort", "done"}

\* input (i1 x i2), K kernels (k1 x k2) that fit in the input, and the
\* destination features (F x f1 x f2).
MultiInputs ==
    { x \in [input : Shapes2, K : 1..MaxExtent, kernel : Shapes2,
             F : 1..MaxExtent, features : Shapes2, branch : MultiBranches] :
        x.kernel[1] <= x.input[1] /\ x.kernel[2] <= x.input[2] }

\* The extents of a valid convolution.
valid_extent(i, k) == i - k + 1

\* The elements of the destination (in memory order) an operation has written
\* and how it ended.
Outcome(st, w) == [status |-> st, written |-> w]

\* c = conv_1d_valid(a, b): the assignment validates the size of c against
\* the size of the expression, then writes every element of c.
assign_conv_1d_valid(a, b, c) ==
    IF c = valid_extent(a, b) THEN Outcome("done", 0..c - 1) ELSE Outcome("abort", {})

\* conv_1d_valid(a, b, c): return c = conv_1d_valid(a, b)
conv_1d_valid(a, b, c) == assign_conv_1d_valid(a, b, c)

\* features = conv_2d_valid_multi(input, kernels): the destination has the
\* shape K x (i1 - k1 + 1) x (i2 - k2 + 1) or nothing is written.
assign_conv_2d_valid_multi(x) ==
    IF /\ x.F = x.K
       /\ x.features[1] = valid_extent(x.input[1], x.kernel[1])
       /\ x.features[2] = valid_extent(x.input[2], x.kernel[2])
    THEN Outcome("done", 0..x.F * x.features[1] * x.features[2] - 1)
    ELSE Outcome("abort", {})

\* conv_2d_valid_multi(input, kernels, features); oob is what an access out
\* of the bounds of features does.
conv_2d_valid_multi(x, oob) ==
    LET K    == x.K
        F    == x.F
        f1   == x.features[1]
        f2   == x.features[2]
        v1   == valid_extent(x.input[1], x.kernel[1])
        v2   == valid_extent(x.input[2], x.kernel[2])
        Kin  == IF K <= F THEN K ELSE F
    IN
    CASE x.branch = "fft" ->
           \* features(k, i, j) = ... for k < K, i < v1, j < v2
           LET W == { k * f1 * f2 + i * f2 + j :
                        k \in 0..Kin - 1,
                        i \in 0..(IF v1 <= f1 THEN v1 ELSE f1) - 1,
                        j \in 0..(IF v2 <= f2 THEN v2 ELSE f2) - 1 }
           IN  IF K <= F /\ v1 <= f1 /\ v2 <= f2
               THEN Outcome("done", W) ELSE Outcome(oob, W)
      [] x.branch = "blas" ->
           \* *mul(reshape(prepared_k, K, k1 * k2), input_col,
           \*      reshape(features, K, f1 * f2))
           LET r == check_mm_mul_sizes(Started,
                        <<K, x.kernel[1] * x.kernel[2]>>,
                        <<x.kernel[1] * x.kernel[2], v1 * v2>>,
                        <<K, f1 * f2>>)
           IN  IF r.status # "ok" THEN Outcome("abort", {})
               ELSE IF K <= F THEN Outcome("done", 0..K * f1 * f2 - 1)
               ELSE Outcome(oob, 0..F * f1 * f2 - 1)
      [] OTHER ->
           \* for k < dim<0>(kernels): features(k) = conv_2d_valid(input, kernels(k))
           IF f1 # v1 \/ f2 # v2 THEN Outcome("abort", {})
           ELSE IF K <= F THEN Outcome("done", 0..K * f1 * f2 - 1)
           ELSE Outcome(oob, 0..F * f1 * f2 - 1)

Conv1dValidInto ==
    /\ res = [op |-> "none"]
    /\ res' = [op  |-> "conv_1d_valid",
               out |-> conv_1d_valid(arg.input[1], arg.kernel[1], arg.features[1]),
               ref |-> assign_conv_1d_valid(arg.input[1], arg.kernel[1], arg.features[1])]
    /\ UNCHANGED <<arg, thr, selVars, tmpVars, parVars>>

Conv2dValidMulti ==
    /\ res = [op |-> "none"]
    /\ \E oob \in OutOfBounds :
         res' = [op  |-> "conv_2d_valid_multi",
                 out |-> conv_2d_valid_multi(arg, oob),
                 ref |-> assign_conv_2d_valid_multi(arg)]
    /\ UNCHANGED <<arg, thr, selVars, tmpVars, parVars>>

DestInit ==
    /\ SelIdle /\ TmpIdle /\ ParIdle
    /\ thr = << >>
    /\ arg \in MultiInputs
    /\ res = [op |-> "none"]

DestNext == Conv1dValidInto \/ Conv2dValidMulti

SpecDest == DestInit /\ [][DestNext]_vars

\* C19: a builder overload that takes a destination leaves the destination as
\* dest = builder(operands) would and validates the same shapes: it ends the
\* same way, having written the same elements, for all operands.
C19_DestinationOverloadEquivalent ==
    res.op \in {"conv_1d_valid", "conv_2d_valid_multi"} => res.out = res.ref

(***************************************************************************)
(* Traits of binary expressions                                            *)
(***************************************************************************)

\* The traits of an operand that etl_traits<binary_expr> reads.
OperandTraits == [is_fast : BOOLEAN, is_generator : BOOLEAN, is_linear : BOOLEAN]

\* etl_traits<binary_expr<T, LeftExpr, BinaryOp, RightExpr>>: the expression is
\* directed by its left operand unless that operand is a generator; is_fast
\* is the is_fast of the directing operand.
etl_traits_binary_expr(l, r, op_linear) ==
    LET left_directed == ~l.is_generator
        sub_expr_t    == IF left_directed THEN l ELSE r
    IN  [is_fast      |-> sub_expr_t.is_fast,
         is_linear    |-> l.is_linear /\ r.is_linear /\ op_linear,
         is_generator |-> l.is_generator /\ r.is_generator]

\* The traits of the binary expression over the two operands are instantiated.
BinaryTraits(op_linear) ==
    /\ res = [op |-> "none"]
    /\ res' = [op |-> "binary_expr", linear |-> op_linear,
               traits |-> etl_traits_binary_expr(arg.lhs, arg.rhs, op_linear)]
    /\ UNCHANGED <<arg, thr, selVars, tmpVars, parVars>>

TraitsInit ==
    /\ SelIdle /\ TmpIdle /\ ParIdle
    /\ thr = << >>
    /\ arg \in [lhs : OperandTraits, rhs : OperandTraits]
    /\ res = [op |-> "none"]

TraitsNext == \E op_linear \in BOOLEAN : BinaryTraits(op_linear)

SpecTraits == TraitsInit /\ [][TraitsNext]_vars

\* C22: a binary element-wise expression has is_fast true if and only if both
\* of its operands have is_fast true.
C22_FastIffBothFast ==
    res.op = "binary_expr" =>
        (res.traits.is_fast <=> (arg.lhs.is_fast /\ arg.rhs.is_fast))

(***************************************************************************)
(* GEMM dispatch and its compute providers                                 *)
(***************************************************************************)

\* The largest inner extent of a product.
MaxInner == 3

\* The extents <<m, k, n>> of a product of an m x k matrix by a k x n matrix.
GemmShapes == (1..MaxExtent) \X (1..MaxInner) \X (1..MaxExtent)

\* What the destination holds before the product.
Garbage == {0, 5}

\* Row-major operands in memory order: a holds 1, 2, ... and b goes on after
\* it (for <<2, 3, 2>>: a = {1, ..., 6}, b = {7, ..., 12}).
MatrixA(sh) == [i \in 1..sh[1] * sh[2] |-> i]
MatrixB(sh) == [i \in 1..sh[2] * sh[3] |-> sh[1] * sh[2] + i]

\* The build, the forced tag of the local context and the operands of a call.
GemmInputs ==
    { [blas |-> bl, cublas |-> cu, vec |-> ve, vectorizable |-> vz,
       forced |-> f[1], impl |-> f[2], shape |-> sh, c0 |-> g] :
        bl \in BOOLEAN, cu \in BOOLEAN, ve \in BOOLEAN, vz \in BOOLEAN,
        f \in ({<<FALSE, "STD">>} \cup {<<TRUE, t>> : t \in GemmTags}),
        sh \in GemmShapes, g \in Garbage }

\* cblas_sgemm on row-major operands without transposition:
\* C = alpha * A * B + beta * C with the leading dimensions lda, ldb, ldc.
cblas_gemm(M, N, K, alpha, A, lda, B, ldb, beta, C, ldc) ==
    [p \in DOMAIN C |->
        LET i == (p - 1) \div ldc
            j == (p - 1) % ldc
        IN  IF i < M /\ j < N
            THEN alpha * SumSeq([k \in 1..K |->
                                   A[i * lda + (k - 1) + 1] * B[(k - 1) * ldb + j + 1]])
                 + beta * C[p]
            ELSE C[p]]

\* A blas::gemm with beta 1: the product is added to what c held.
blas_gemm_accumulates(a, b, c, sh) ==
    cblas_gemm(sh[1], sh[3], sh[2], 1, a, sh[2], b, sh[3], 1, c, sh[3])

\* impl::blas::gemm(a, b, c): rows(a), columns(b), columns(a), alpha 1,
\* beta 0 and the major strides of the row-major operands.
blas_gemm(a, b, c, sh) ==
    cblas_gemm(sh[1], sh[3], sh[2], 1, a, sh[2], b, sh[3], 0, c, sh[3])

\* impl::standard::mm_mul, impl::vec::gemm and impl::cublas::gemm:
\* c(i, j) = sum over k of a(i, k) * b(k, j).
provider_mm_mul(a, b, c, sh) ==
    [p \in DOMAIN c |->
        LET i == (p - 1) \div sh[3]
            j == (p - 1) % sh[3]
        IN  SumSeq([k \in 1..sh[2] |-> a[i * sh[2] + k] * b[(k - 1) * sh[3] + j + 1]])]

\* mm_mul_impl::apply_raw(a, b, c) for plain operands: the tag of
\* select_gemm_impl and the provider of that tag.
apply_raw(x, a, b, c) ==
    LET sel  == [blas |-> x.blas, cublas |-> x.cublas, vec |-> x.vec, dma |-> TRUE,
                 vectorizable |-> x.vectorizable, T |-> "float",
                 forced |-> x.forced, impl |-> x.impl,
                 n1 |-> x.shape[1], n2 |-> x.shape[2], n3 |-> x.shape[3]]
        impl == select_gemm_impl(sel).impl
    IN  [impl |-> impl,
         c |-> CASE impl = "STD"    -> provider_mm_mul(a, b, c, x.shape)
                 [] impl = "VEC"    -> provider_mm_mul(a, b, c, x.shape)
                 [] impl = "BLAS"   -> blas_gemm(a, b, c, x.shape)
                 [] impl = "CUBLAS" -> provider_mm_mul(a, b, c, x.shape)
                 [] OTHER           -> c]

\* basic_mm_mul_expr::apply(a, b, c) on a destination of the product's shape.
GemmApply ==
    /\ res = [op |-> "none"]
    /\ LET c0 == [p \in 1..arg.shape[1] * arg.shape[3] |-> arg.c0]
           r  == check_mm_mul_sizes(Started, <<arg.shape[1], arg.shape[2]>>,
                                    <<arg.shape[2], arg.shape[3]>>,
                                    <<arg.shape[1], arg.shape[3]>>)
       IN  res' = [op |-> "mm_mul", status |-> Finished(r).status]
                    @@ apply_raw(arg, MatrixA(arg.shape), MatrixB(arg.shape), c0)
    /\ UNCHANGED <<arg, thr, selVars, tmpVars, parVars>>

GemmInit ==
    /\ SelIdle /\ TmpIdle /\ ParIdle
    /\ thr = << >>
    /\ arg \in GemmInputs
    /\ res = [op |-> "none"]

GemmNext == GemmApply

SpecGemm == GemmInit /\ [][GemmNext]_vars

\* C23: every GEMM implementation leaves c(i, j) = sum over k of
\* a(i, k) * b(k, j) whichever tag the dispatcher selects; for
\* a = [[1,2,3],[4,5,6]] and b = [[7,8],[9,10],[11,12]] it is
\* [[58,64],[139,154]].
C23_GemmResult ==
    res.op = "mm_mul" =>
        /\ \A i \in 0..arg.shape[1] - 1 : \A j \in 0..arg.shape[3] - 1 :
             res.c[i * arg.shape[3] + j + 1] =
                SumSeq([k \in 1..arg.shape[2] |->
                          MatrixA(arg.shape)[i * arg.shape[2] + k]
                          * MatrixB(arg.shape)[(k - 1) * arg.shape[3] + j + 1]])
        /\ arg.shape = <<2, 3, 2>> => res.c = <<58, 64, 139, 154>>

\* The operands of the test gemm/1 were multiplied by the BLAS provider over a
\* destination that held other values.
C23_Witness ==
    /\ res.op = "mm_mul" /\ res.impl = "BLAS"
    /\ arg.shape = <<2, 3, 2>> /\ arg.c0 = 5
    /\ MatrixA(arg.shape) = <<1, 2, 3, 4, 5, 6>>
    /\ MatrixB(arg.shape) = <<7, 8, 9, 10, 11, 12>>
    /\ res.c = <<58, 64, 139, 154>>

(***************************************************************************)
(* Dispatch functions: from the selected tag to a compute provider         *)
(***************************************************************************)

\* The tags of conv4_impl named by the conv4 functors.
Conv4Tags == {"CUDNN", "BLAS_VEC", "BLAS_MKL", "VEC", "STD", "FFT_STD", "FFT_MKL", "FFT_CUFFT"}

\* The build, the operand traits, the forced tag of the selector of the
\* operation family (if any) and the extent of the operands.
DispatchInputs ==
    { [blas |-> bl, cublas |-> cu, cudnn |-> dn, cufft |-> ft, vec |-> ve,
       dma |-> dm, vectorizable |-> vz, T |-> "float",
       forced |-> f[1], impl |-> f[2], n1 |-> n, n2 |-> n, n3 |-> n] :
        bl \in BOOLEAN, cu \in BOOLEAN, dn \in BOOLEAN, ft \in BOOLEAN, ve \in BOOLEAN,
        dm \in BOOLEAN, vz \in BOOLEAN,
        f \in ({<<FALSE, "STD">>} \cup {<<TRUE, t>> : t \in MmulTags \cup Conv4Tags}),
        n \in {1, 1001} }

\* The feature a provider is compiled with: without it the provider is the
\* stub that ends in cpp_unreachable("Unsupported feature called").
compiled_in(tag, x) ==
    CASE tag \in {"BLAS", "BLAS_MKL", "FFT_MKL"} -> x.blas
      [] tag = "CUBLAS"                          -> x.cublas
      [] tag = "CUDNN"                           -> x.cudnn
      [] tag = "FFT_CUFFT"                       -> x.cufft
      [] tag \in {"VEC", "BLAS_VEC"}             -> x.vec
      [] OTHER                                   -> TRUE

\* The if / else if chain of a dispatch function over the tags it has a
\* branch for; has_else tells whether the chain ends in cpp_unreachable.
dispatch(branches, has_else, impl, x) ==
    IF impl \in branches
    THEN [impl |-> impl, invoked |-> <<impl>>,
          unreachable |-> ~compiled_in(impl, x), populated |-> compiled_in(impl, x)]
    ELSE [impl |-> impl, invoked |-> << >>, unreachable |-> has_else, populated |-> FALSE]

\* The selectors of the conv4 functors: a usable forced tag is returned, else
\* the usable tag of highest priority among those the functor dispatches.
Conv4Priority == <<"CUDNN", "FFT_CUFFT", "BLAS_MKL", "FFT_MKL", "BLAS_VEC", "VEC", "STD">>

select_conv4_impl(branches, x) ==
    LET usable(t) == compiled_in(t, x) /\ (t \in {"VEC", "BLAS_VEC"} => x.vectorizable)
        ok  == { i \in DOMAIN Conv4Priority :
                    Conv4Priority[i] \in branches /\ usable(Conv4Priority[i]) }
        def == Conv4Priority[CHOOSE i \in ok : \A j \in ok : i <= j]
    IN  IF x.forced /\ usable(x.impl) THEN x.impl ELSE def

Dispatched(name, r) ==
    /\ res = [op |-> "none"]
    /\ res' = [op |-> "dispatch", fn |-> name] @@ r
    /\ UNCHANGED <<arg, thr, selVars, tmpVars, parVars>>

GemmForced == arg.forced => arg.impl \in MmulTags
Conv4Forced == arg.forced => arg.impl \in Conv4Tags

\* mm_mul_impl::apply_raw, vm_mul_impl::apply, mv_mul_impl::apply of impl/gemm.hpp
GemmHppDispatch(family) ==
    /\ arg.dma /\ (arg.forced => arg.impl \in GemmTags)
    /\ Dispatched(<<"gemm.hpp", family>>,
                  dispatch(GemmTags, FALSE,
                           (CASE family = "gemm" -> select_gemm_impl(arg)
                              [] family = "gemv" -> select_gemv_impl(arg)
                              [] OTHER           -> select_gevm_impl(arg)).impl, arg))

\* mm_mul_impl::apply, vm_mul_impl::apply, mv_mul_impl::apply of impl/mmul.hpp
MmulHppDispatch(family) ==
    /\ GemmForced
    /\ Dispatched(<<"mmul.hpp", family>>,
                  dispatch(IF family = "gemm" THEN MmulTags ELSE GemmTags, FALSE,
                           (CASE family = "gemm" -> mmul_select_gemm_impl(arg)
                              [] family = "gemv" -> mmul_select_gemv_impl(arg)
                              [] OTHER           -> mmul_select_gevm_impl(arg)).impl, arg))

\* conv4_valid_impl::apply
Conv4ValidApply ==
    LET branches == {"CUDNN", "BLAS_VEC", "BLAS_MKL", "VEC", "STD"} IN
    /\ Conv4Forced
    /\ Dispatched(<<"conv_4d.hpp", "conv4_valid">>,
                  dispatch(branches, TRUE, select_conv4_impl(branches, arg), arg))

\* conv4_valid_back_impl::apply
Conv4ValidBackApply ==
    LET branches == {"BLAS_VEC", "BLAS_MKL", "VEC", "STD"} IN
    /\ Conv4Forced
    /\ Dispatched(<<"conv_4d.hpp", "conv4_valid_back">>,
                  dispatch(branches, TRUE, select_conv4_impl(branches, arg), arg))

\* conv4_full_impl::apply
Conv4FullApply ==
    LET branches == {"CUDNN", "VEC", "FFT_STD", "FFT_MKL", "FFT_CUFFT", "STD"} IN
    /\ Conv4Forced
    /\ Dispatched(<<"conv_4d.hpp", "conv4_full">>,
                  dispatch(branches, TRUE, select_conv4_impl(branches, arg), arg))

DispatchInit ==
    /\ SelIdle /\ TmpIdle /\ ParIdle
    /\ thr = << >>
    /\ arg \in DispatchInputs
    /\ res = [op |-> "none"]

DispatchNext ==
    \/ \E family \in {"gemm", "gemv", "gevm"} : GemmHppDispatch(family)
    \/ \E family \in {"gemm", "gemv", "gevm"} : MmulHppDispatch(family)
    \/ Conv4ValidApply
    \/ Conv4ValidBackApply
    \/ Conv4FullApply

SpecDispatch == DispatchInit /\ [][DispatchNext]_vars

\* C24: for every tag a selector can return, under every build and every
\* forced override, the dispatch function invokes exactly one compute
\* provider, no unreachable branch is reached and the output is populated on
\* return.
C24_ExactlyOneProvider ==
    res.op = "dispatch" =>
        /\ Len(res.invoked) = 1
        /\ ~res.unreachable
        /\ res.populated

(***************************************************************************)
(* Result extents and shape checks of the multi-kernel convolutions        *)
(***************************************************************************)

\* A three-dimensional shape.  The functors over a two-dimensional input read
\* its first two extents only.
Shapes3 == (1..MaxExtent) \X (1..MaxExtent) \X (1..MaxExtent)

MultiDimInputs ==
    [input : Shapes3, kernel : Shapes3, S : Strides \X Strides, P : Paddings \X Paddings]

\* etl::dim(e, d) with d counted from 0.
dim_of(e, d) == e[d + 1]

\* (i - k + 2 * P) / S + 1 in unsigned 64-bit arithmetic: when i - k + 2 * P
\* is negative the difference wraps, and the value is 0 for S = 1 and a
\* difference of -1, and at least 2^63 - 1 otherwise, which is written -1 here
\* and which no extent equals.
valid_out(i, k, P, S) ==
    LET d == i - k + 2 * P IN
    IF d >= 0 THEN d \div S + 1 ELSE IF S = 1 /\ d = -1 THEN 0 ELSE -1

\* The value a dim(d, input, kernel) returns after cpp_assert(d < rank).
dim_result(d, rank, v) == [ok |-> d < rank, v |-> v]

\* conv2_valid_multi_impl<S1, S2, P1, P2>::dim(d, input, kernel) and
\* dyn_conv2_valid_multi_impl::dim(d, input, kernel)
conv2_valid_multi_dim(d, x) ==
    dim_result(d, 3,
        IF d = 0 THEN dim_of(x.kernel, 0)
        ELSE IF d = 1 THEN valid_out(dim_of(x.input, d - 1), dim_of(x.kernel, d), x.P[1], x.S[1])
        ELSE valid_out(dim_of(x.input, d - 1), dim_of(x.kernel, d), x.P[2], x.S[2]))

\* conv2_valid_multi_impl<S1, S2, P1, P2>::check(input, kernel, conv) and
\* dyn_conv2_valid_multi_impl::check(input, kernel, conv)
conv2_valid_multi_check(r, x, conv) ==
    validate(validate(r, "conv_dims",
                      /\ dim_of(conv, 0) = dim_of(x.kernel, 0)
                      /\ dim_of(conv, 1) = valid_out(dim_of(x.input, 0), dim_of(x.kernel, 1), x.P[1], x.S[1])
                      /\ dim_of(conv, 2) = valid_out(dim_of(x.input, 1), dim_of(x.kernel, 2), x.P[2], x.S[2])),
             "kernel_le_input",
             /\ dim_of(x.input, 0) >= dim_of(x.kernel, 1)
             /\ dim_of(x.input, 1) >= dim_of(x.kernel, 2))

\* conv2_valid_multi_multi_impl<S1, S2, P1, P2>::dim(d, input, kernel)
conv2_valid_multi_multi_dim(d, x) ==
    dim_result(d, 4,
        IF d = 0 THEN dim_of(x.kernel, 0)
        ELSE IF d = 1 THEN dim_of(x.input, 0)
        ELSE IF d = 2 THEN valid_out(dim_of(x.input, d - 1), dim_of(x.kernel, d - 1), x.P[1], x.S[1])
        ELSE valid_out(dim_of(x.input, d - 1), dim_of(x.kernel, d - 1), x.P[2], x.S[2]))

\* dyn_conv2_valid_multi_multi_impl::dim(d, input, kernel)
dyn_conv2_valid_multi_multi_dim(d, x) ==
    dim_result(d, 3,
        IF d = 0 THEN dim_of(x.kernel, 0)
        ELSE IF d = 1 THEN valid_out(dim_of(x.input, d - 1), dim_of(x.kernel, d), x.P[1], x.S[1])
        ELSE IF d = 2 THEN valid_out(dim_of(x.input, d - 1), dim_of(x.kernel, d), x.P[2], x.S[2])
        ELSE 0)

\* conv2_valid_multi_multi_impl<S1, S2, P1, P2>::check(input, kernel, conv) and
\* dyn_conv2_valid_multi_multi_impl::check(input, kernel, conv)
conv2_valid_multi_multi_check(r, x, conv) ==
    validate(validate(r, "conv_dims",
                      /\ dim_of(conv, 0) = dim_of(x.kernel, 0)
                      /\ dim_of(conv, 1) = dim_of(x.input, 0)
                      /\ dim_of(conv, 2) = valid_out(dim_of(x.input, 1), dim_of(x.kernel, 1), x.P[1], x.S[1])
                      /\ dim_of(conv, 3) = valid_out(dim_of(x.input, 2), dim_of(x.kernel, 2), x.P[2], x.S[2])),
             "kernel_le_input",
             /\ dim_of(x.input, 1) >= dim_of(x.kernel, 1)
             /\ dim_of(x.input, 2) >= dim_of(x.kernel, 2))

\* conv2_full_multi_impl::dim(d, input, kernel)
conv2_full_multi_dim(d, x) ==
    dim_result(d, 3,
        IF d = 0 THEN dim_of(x.kernel, 0)
        ELSE dim_of(x.input, d - 1) + dim_of(x.kernel, d) - 1)

\* conv2_full_multi_impl::check(input, kernel, conv)
conv2_full_multi_check(r, x, conv) ==
    validate(validate(r, "conv_dims",
                      /\ dim_of(conv, 0) = dim_of(x.kernel, 0)
                      /\ dim_of(conv, 1) = dim_of(x.input, 0) + dim_of(x.kernel, 1) - 1
                      /\ dim_of(conv, 2) = dim_of(x.input, 1) + dim_of(x.kernel, 2) - 1),
             "kernel_le_input",
             /\ dim_of(x.input, 0) >= dim_of(x.kernel, 1)
             /\ dim_of(x.input, 1) >= dim_of(x.kernel, 2))

\* conv2_same_multi_impl::dim(d, input, kernel)
conv2_same_multi_dim(d, x) ==
    dim_result(d, 3,
        IF d = 0 THEN dim_of(x.kernel, 0)
        ELSE dim_of(x.input, d - 1))

\* conv2_same_multi_impl::check(input, kernel, conv)
conv2_same_multi_check(r, x, conv) ==
    validate(validate(r, "conv_dims",
                      /\ dim_of(conv, 0) = dim_of(x.kernel, 0)
                      /\ dim_of(conv, 1) = dim_of(x.input, 0)
                      /\ dim_of(conv, 2) = dim_of(x.input, 1)),
             "kernel_le_input",
             /\ dim_of(x.input, 0) >= dim_of(x.kernel, 1)
             /\ dim_of(x.input, 1) >= dim_of(x.kernel, 2))

\* The result container built from the values D of dim(d, input, kernel),
\* d = 0 .. Len(D) - 1.
sized_by(r, D) == validate(r, "dim_access", \A d \in DOMAIN D : D[d].ok)

extents(D) == [d \in DOMAIN D |-> D[d].v]

\* A result container sized by the functor's dim is handed to its check.
MultiDimCheck(op, D, r) ==
    /\ res = [op |-> "none"]
    /\ res' = [op |-> op, conv |-> extents(D)] @@ Finished(r)
    /\ UNCHANGED <<arg, thr, selVars, tmpVars, parVars>>

Conv2ValidMultiDims ==
    LET D == [d \in 1..3 |-> conv2_valid_multi_dim(d - 1, arg)] IN
    MultiDimCheck("conv2_valid_multi", D,
                  conv2_valid_multi_check(sized_by(Started, D), arg, extents(D)))

Conv2ValidMultiMultiDims ==
    LET D == [d \in 1..4 |-> conv2_valid_multi_multi_dim(d - 1, arg)] IN
    MultiDimCheck("conv2_valid_multi_multi", D,
                  conv2_valid_multi_multi_check(sized_by(Started, D), arg, extents(D)))

DynConv2ValidMultiMultiDims ==
    LET D == [d \in 1..4 |-> dyn_conv2_valid_multi_multi_dim(d - 1, arg)] IN
    MultiDimCheck("dyn_conv2_valid_multi_multi", D,
                  conv2_valid_multi_multi_check(sized_by(Started, D), arg, extents(D)))

Conv2FullMultiDims ==
    LET D == [d \in 1..3 |-> conv2_full_multi_dim(d - 1, arg)] IN
    MultiDimCheck("conv2_full_multi", D,
                  conv2_full_multi_check(sized_by(Started, D), arg, extents(D)))

Conv2SameMultiDims ==
    LET D == [d \in 1..3 |-> conv2_same_multi_dim(d - 1, arg)] IN
    MultiDimCheck("conv2_same_multi", D,
                  conv2_same_multi_check(sized_by(Started, D), arg, extents(D)))

MultiDimInit ==
    /\ SelIdle /\ TmpIdle /\ ParIdle
    /\ thr = << >>
    /\ arg \in MultiDimInputs
    /\ res = [op |-> "none"]

MultiDimNext ==
    \/ Conv2ValidMultiDims
    \/ Conv2ValidMultiMultiDims
    \/ DynConv2ValidMultiMultiDims
    \/ Conv2FullMultiDims
    \/ Conv2SameMultiDims

SpecMultiDim == MultiDimInit /\ [][MultiDimNext]_vars

\* The kernel is no larger than the input in both spatial dimensions: the
\* input has its spatial extents at 0 and 1 for the functors over one input
\* and at 1 and 2 for the functors over several inputs; the kernel has them
\* at 1 and 2.
KernelFits(op) ==
    IF op \in {"conv2_valid_multi_multi", "dyn_conv2_valid_multi_multi"}
    THEN dim_of(arg.input, 1) >= dim_of(arg.kernel, 1) /\ dim_of(arg.input, 2) >= dim_of(arg.kernel, 2)
    ELSE dim_of(arg.input, 0) >= dim_of(arg.kernel, 1) /\ dim_of(arg.input, 1) >= dim_of(arg.kernel, 2)

\* C27: for every convolution functor, a result container whose extents are
\* the functor's dim(d, input, kernel) for each result dimension d passes the
\* functor's check(input, kernel, result), for every input and kernel with
\* kernel no larger than input.
C27_DimPassesCheck ==
    (res.op # "none" /\ KernelFits(res.op)) => res.status = "done"

(***************************************************************************)
(* The loop of thread_blocks                                               *)
(***************************************************************************)

\* The largest etl::threads and the largest extent thread_blocks is called
\* with, and the number of iterations after which its loop is cut.
MaxBlockThreads == 8
MaxBlockDim == 4
MaxLoop == 12

BlocksInputs == [M : 1..MaxBlockDim, N : 1..MaxBlockDim]

\* ++m (and ++n in the other branch)
increment_skips_one(k) == k + 2

increment(k) == k + 1

\* The state of a call of thread_blocks at the test of its while loop.
AtWhile(m, n, it) == [op |-> "while", m |-> m, n |-> n, it |-> it]

\* thread_blocks(M, N) up to the first test of the loop: m (n when M < N) is
\* the rounded square root, between 1 and threads, n is threads / m.
ThreadBlocksEnter ==
    /\ res = [op |-> "none"]
    /\ res' = IF arg.M >= arg.N
              THEN LET m == Min(ctx.threads, Max(1, round_sqrt(ctx.threads * arg.M, arg.N)))
                   IN  AtWhile(m, ctx.threads \div m, 0)
              ELSE LET n == Min(ctx.threads, Max(1, round_sqrt(ctx.threads * arg.N, arg.M)))
                   IN  AtWhile(ctx.threads \div n, n, 0)
    /\ UNCHANGED <<arg, thr, selVars, tmpVars, parVars>>

\* An iteration of while (m * n != threads).
ThreadBlocksLoop ==
    /\ res.op = "while"
    /\ res.m * res.n # ctx.threads
    /\ res.it < MaxLoop
    /\ res' = IF arg.M >= arg.N
              THEN LET m == increment(res.m) IN AtWhile(m, ctx.threads \div m, res.it + 1)
              ELSE LET n == increment(res.n) IN AtWhile(ctx.threads \div n, n, res.it + 1)
    /\ UNCHANGED <<arg, thr, selVars, tmpVars, parVars>>

\* return {m, n}
ThreadBlocksReturn ==
    /\ res.op = "while"
    /\ res.m * res.n = ctx.threads
    /\ res' = [res EXCEPT !.op = "returned"]
    /\ UNCHANGED <<arg, thr, selVars, tmpVars, parVars>>

BlocksInit ==
    /\ SelIdle /\ TmpIdle
    /\ ctx \in [threads : 1..MaxBlockThreads, is_parallel : {TRUE},
                serial : {FALSE}, parallel : {FALSE}]
    /\ call = NoFrame
    /\ tasks = << >> /\ direct = << >> /\ futures = << >> /\ accs = << >>
    /\ thr = << >>
    /\ arg \in BlocksInputs
    /\ res = [op |-> "none"]

BlocksNext == ThreadBlocksEnter \/ ThreadBlocksLoop \/ ThreadBlocksReturn

\* The calling thread runs on: a call that can take a step takes it.
SpecBlocks == BlocksInit /\ [][BlocksNext]_vars /\ WF_vars(BlocksNext)

\* C29: thread_blocks(M, N) terminates for every M >= 1, N >= 1 and thread
\* count >= 1, and returns a pair (m, n) with m >= 1, n >= 1 and m * n equal
\* to the thread count.
C29_ThreadBlocksTerminates ==
    /\ <>(res.op = "returned")
    /\ [](res.op = "returned" =>
            /\ res.m >= 1 /\ res.n >= 1
            /\ res.m * res.n = ctx.threads
            /\ <<res.m, res.n>> = thread_blocks(arg.M, arg.N))

\* A call that returned after its loop ran: the rounded square root did not
\* divide the thread count.
C29_Witness ==
    /\ res.op = "returned"
    /\ res.it >= 1
    /\ res.m > 1 /\ res.n > 1

(***************************************************************************)
(* The dispatch functions of a build without ETL_PARALLEL_SUPPORT          *)
(***************************************************************************)

Builds == {"parallel", "no_parallel"}

\* What a dispatch function that made no schedule call has done when it
\* returns: the functor calls and the accumulator calls, in order.
Calls(f, a) == [direct |-> f, accs |-> a]

\* engine_dispatch_1d(functor, first, last, threshold) and
\* engine_dispatch_1d(functor, first, last, select) without parallel support.
serial_engine_dispatch_1d(first, last) ==
    IF last - first # 0 THEN Calls(<<Blk(first, last)>>, << >>) ELSE Calls(<< >>, << >>)

\* engine_dispatch_1d_acc(functor, acc_functor, first, last, threshold)
\* without parallel support.
serial_engine_dispatch_1d_acc(first, last) ==
    IF last - first # 0
    THEN Calls(<<Blk(first, last)>>, <<functor(Blk(first, last))>>)
    ELSE Calls(<< >>, << >>)

\* engine_dispatch_1d_acc_slice(expr, functor, acc_functor, threshold) without
\* parallel support, on an expression of n elements.
serial_engine_dispatch_1d_acc_slice(n) ==
    Calls(<<Blk(0, n)>>, <<functor(Blk(0, n))>>)

\* The calls of the dispatch function fn of the build without parallel support
\* over range.
serial_build(fn, range) ==
    IF fn \in {"1d", "1d_select"} THEN serial_engine_dispatch_1d(range.first, range.last)
    ELSE IF fn = "1d_acc" THEN serial_engine_dispatch_1d_acc(range.first, range.last)
    ELSE serial_engine_dispatch_1d_acc_slice(range.last)

\* A call of a dispatch function of the build without parallel support.
SerialCall(fn, range) ==
    /\ arg.build = "no_parallel"
    /\ call.pc = "idle"
    /\ range.first <= range.last
    /\ call' = Frame(fn, "returned", range, << >>)
    /\ direct' = direct \o serial_build(fn, range).direct
    /\ accs' = accs \o serial_build(fn, range).accs
    /\ UNCHANGED <<ctx, tasks, futures, selVars, tmpVars, extVars>>

BuildsInit ==
    /\ SelIdle /\ TmpIdle /\ ParStart
    /\ thr = << >>
    /\ arg \in [build : Builds]
    /\ res = [op |-> "none"]

BuildsNext ==
    \/ arg.build = "parallel" /\ ParNext
    \/ \E first \in 0..MaxIndex, last \in 0..MaxIndex : SerialCall("1d", Blk(first, last))
    \/ \E first \in 0..MaxIndex, last \in 0..MaxIndex : SerialCall("1d_select", Blk(first, last))
    \/ \E first \in 0..MaxIndex, last \in 0..MaxIndex : SerialCall("1d_acc", Blk(first, last))
    \/ \E n \in 0..MaxSize : SerialCall("1d_acc_slice", Blk(0, n))

SpecBuilds == BuildsInit /\ [][BuildsNext]_vars

\* A dispatch function of one range has returned without a schedule call: it
\* ran in the build without parallel support, or on the serial path of the
\* build with parallel support.
ReturnedSerially ==
    /\ call.pc = "returned"
    /\ call.fn \in {"1d", "1d_select", "1d_acc", "1d_acc_slice"}
    /\ tasks = << >>

\* C30: a build without parallel support behaves like the serial path of a
\* build with parallel support: for every input, an empty range and an empty
\* expression included, engine_dispatch_1d, engine_dispatch_1d_acc and
\* engine_dispatch_1d_acc_slice call the functor and the accumulator the same
\* number of times with the same arguments in the two builds.
C30_NoParallelBuildLikeSerialPath ==
    ReturnedSerially =>
        /\ direct = serial_build(call.fn, call.range).direct
        /\ accs = serial_build(call.fn, call.range).accs

SelInit == selIn \in SelInputs /\ selOut = NoCall /\ TmpIdle /\ ParIdle /\ ExtIdle

SelNext ==
    \/ mm_mul_impl
    \/ mv_mul_impl
    \/ vm_mul_impl
    \/ mmul_mm_mul_impl
    \/ mmul_mv_mul_impl
    \/ mmul_vm_mul_impl

SpecSel == SelInit /\ [][SelNext]_vars

\* The tag a selector may return for an input: the backend is enabled in the
\* build and the operands support it (the conditions the selectors test before
\* they accept a forced tag; only STD handles operands without direct memory).
StructurallyValid(tag, family, x) ==
    CASE tag = "STD"    -> TRUE
      [] tag = "VEC"    -> x.dma /\ x.vec /\ x.vectorizable
      [] tag = "BLAS"   -> x.dma /\ x.blas
      [] tag = "CUBLAS" -> x.dma /\ x.cublas
      [] tag = "FAST"   -> family = "gemm" /\ x.dma /\ ~is_complex_t(x.T)
      [] OTHER          -> FALSE

\* The default selector of the family and file of the last call.
DefaultOf(file, family, x) ==
    CASE file = "gemm.hpp" /\ family = "gemm" -> select_default_gemm_impl(x)
      [] file = "gemm.hpp" /\ family = "gemv" -> select_default_gemv_impl(x)
      [] file = "gemm.hpp" /\ family = "gevm" -> select_default_gevm_impl(x)
      [] file = "mmul.hpp" /\ family = "gemm" -> mmul_select_default_gemm_impl(x)
      [] file = "mmul.hpp" /\ family = "gemv" -> mmul_select_default_gemv_impl(x)
      [] OTHER                                -> mmul_select_default_gevm_impl(x)

\* C1: whatever the operand traits, the build flags, the sizes and the forced
\* override, the tag a selector returns is structurally valid for the operands.
C1_SelectorStructurallyValid ==
    selOut # NoCall => StructurallyValid(selOut.impl, selOut.family, selIn)

\* C2: a forced tag that is structurally infeasible makes the selector emit a
\* diagnostic and return exactly the tag of the default selector of the family.
C2_InfeasibleForcedFallsBack ==
    (selOut # NoCall /\ selIn.forced
        /\ ~StructurallyValid(selIn.impl, selOut.family, selIn))
    => (selOut.diag /\ selOut.impl = DefaultOf(selOut.file, selOut.family, selIn))

\* The backend of highest priority that is feasible for an input: the GPU
\* library when enabled and the size reaches the family's GPU threshold, else
\* the CPU BLAS when enabled on direct-memory operands, else the vectorized
\* loop when enabled on vectorizable operands, else the naive loop.
AboveGpuThreshold(family, x) ==
    IF family = "gemm" THEN x.n1 * x.n3 >= gemm_cublas_min
    ELSE x.n1 * x.n2 > gemv_cublas_min

HighestPriority(family, x) ==
    IF x.dma /\ x.cublas /\ AboveGpuThreshold(family, x) THEN "CUBLAS"
    ELSE IF x.dma /\ x.blas THEN "BLAS"
    ELSE IF x.dma /\ x.vec /\ x.vectorizable THEN "VEC"
    ELSE "STD"

\* C20: with no override active, the selector of every family (GEMM, GEMV,
\* GEVM) returns the feasible backend of highest priority in the order
\* GPU library > CPU BLAS > vectorized loop > naive loop.
C20_DefaultIsHighestPriority ==
    (selOut # NoCall /\ ~selIn.forced) =>
        selOut.impl = HighestPriority(selOut.family, selIn)

\* C21: below the small-size threshold gemm_std_max the default GEMM selector
\* returns the naive implementation, not a vendor library (BLAS or CUBLAS),
\* even when the vendor library is enabled.
C21_SmallSizePrefersNaive ==
    (selOut # NoCall /\ ~selIn.forced /\ selOut.family = "gemm"
        /\ selIn.n1 * selIn.n3 < gemm_std_max)
    => selOut.impl \notin {"BLAS", "CUBLAS"}

====
